---------------------------- MODULE Spec2Model ----------------------------
(***************************************************************************)
(* Pagination engine of pdf-gen-ai: the render entry points that lay out   *)
(* paragraphs, signature blocks, tables and charts on fixed-size pages      *)
(* through the page-drawing primitive (PDFKit's PDFDocument), and stamp     *)
(* the footers.                                                             *)
(*                                                                         *)
(* All lengths are in thousandths of a point, so that the primitive's line *)
(* heights (font size times 1.156 for Helvetica, 1.19 for Helvetica-Bold)  *)
(* are integers.  Program constants keep the source's value in points and  *)
(* are scaled with mp(_) where they are used.                               *)
(***************************************************************************)
EXTENDS Integers, Sequences, FiniteSets, TLC

VARIABLES
    prog,        \* the entry point being run
    pc,          \* its position
    status,      \* "running", "resolved" or "rejected": the returned promise
    doc,         \* the PDFDocument: pages, buffer, cursor, font, drawn operations
    opts,        \* the options argument
    data,        \* the content arguments (paragraphs, tables, charts, signature)
    startY,      \* the renderer's own cursor (startY / currentY / yPos)
    idx,         \* loop indices: table, row, chart, footer page
    totalPages,  \* the page count read for the footer pass
    laidOut      \* the number of pages the layout produced (0 until it ends)

vars == <<prog, pc, status, doc, opts, data, startY, idx, totalPages, laidOut>>

(***************************************************************************)
(* Bounds of the inputs.                                                   *)
(***************************************************************************)
MaxParaLines == 45
MaxRows == 2
MaxLines == 2
MaxHeadLines == 4
MaxTables == 2

(***************************************************************************)
(* Units and the primitive's metrics.                                      *)
(***************************************************************************)
mp(n) == n * 1000

Max(a, b) == IF a >= b THEN a ELSE b
Min(a, b) == IF a <= b THEN a ELSE b

\* doc.currentLineHeight(true) for the standard Helvetica faces
LineHeight(fs, bold) == fs * (IF bold THEN 1190 ELSE 1156)

LH(d) == LineHeight(d.fs, d.bold)

\* doc.page.maxY(): page height minus the current page's bottom margin
MaxY(d) == d.H - d.bot[d.cur]

NoY == 0 - 1

(***************************************************************************)
(* The drawn operations.  Every draw is appended to doc.ops:               *)
(*   k  kind, p/y page and Y where it starts, pe/ye page and Y where it    *)
(*   ends, t/r table (or chart) and row it belongs to, a/b two numbers     *)
(*   (a footer's page number and total, a chart's radius, ...).            *)
(***************************************************************************)
Op(k, p, y, pe, ye, t, r, a, b) ==
    [k |-> k, p |-> p, y |-> y, pe |-> pe, ye |-> ye, t |-> t, r |-> r, a |-> a, b |-> b]

Log(d, k, y, ye, t, r, a, b) ==
    [d EXCEPT !.ops = Append(@, Op(k, d.cur, y, d.cur, ye, t, r, a, b))]

(***************************************************************************)
(* new PDFDocument({autoFirstPage: true, ...})                             *)
(***************************************************************************)
NewDoc(height, top, bottom, buffered, handler) ==
    [ H |-> height, top |-> top, bottom |-> bottom,
      buffered |-> buffered,     \* options.bufferPages
      on |-> handler,            \* the 'pageAdded' listeners installed
      np |-> 1,                  \* pages created so far
      cur |-> 1,                 \* doc.page, as a 1-based page number
      bs |-> 0,                  \* _pageBufferStart: pages already flushed
      bot |-> <<bottom>>,        \* each page's margins.bottom
      y |-> top,
      fs |-> 12, bold |-> FALSE,
      cnt |-> [total |-> 1, current |-> 1],  \* counters kept by listeners
      ops |-> <<>> ]

SetFont(d, fs, bold) == [d EXCEPT !.fs = fs, !.bold = bold]

\* doc.moveDown(n), n given in halves of a line
MoveDownHalves(d, halves) == [d EXCEPT !.y = @ + (LH(d) * halves) \div 2]

MoveDown(d, n) == MoveDownHalves(d, 2 * n)

\* the 'pageAdded' listeners of each entry point
PageAdded(d) ==
    CASE d.on = "count" ->
            [d EXCEPT !.cnt = [total |-> @.total + 1, current |-> @.current + 1]]
      [] d.on = "margin" ->
            [d EXCEPT !.bot[d.cur] = d.bottom + mp(20)]
      [] OTHER -> d

\* doc.addPage(): without bufferPages every earlier page is flushed
AddPage(d) ==
    PageAdded([d EXCEPT !.np = @ + 1,
                        !.cur = d.np + 1,
                        !.bs = IF d.buffered THEN @ ELSE d.np,
                        !.bot = Append(@, d.bottom),
                        !.y = d.top])

\* bufferedPageRange()
BufferedCount(d) == d.np - d.bs

\* switchToPage(n) throws unless page n (0-based) is still buffered
CanSwitch(d, n) == d.bs <= n /\ n < d.np

SwitchToPage(d, n) == [d EXCEPT !.cur = n + 1]

\* LineWrapper: a line is drawn on the current page only if it ends above
\* maxY; otherwise the text continues on a new page
FitLine(d) == IF d.y + LH(d) > MaxY(d) THEN AddPage(d) ELSE d

\* the lines of a wrapped text, page by page: the first line of a section is
\* always drawn, each further line only if it still ends above maxY
RECURSIVE DrawLines(_, _, _)
DrawLines(d, n, gap) ==
    IF n = 0 THEN d
    ELSE LET step == LH(d) + gap
             room == MaxY(d) - LH(d) - (d.y + step)
             more == IF room < 0 THEN 0 ELSE room \div step + 1
             m == Min(n, 1 + more)
             d1 == [d EXCEPT !.y = @ + m * step]
         IN IF m = n THEN d1 ELSE DrawLines(AddPage(d1), n - m, gap)

\* doc.text(text, x, y, {lineGap}) of a text that wraps to n lines
Text(d, k, ypos, n, gap, t, r, a, b) ==
    LET d0 == FitLine(IF ypos = NoY THEN d ELSE [d EXCEPT !.y = ypos])
        d1 == DrawLines(d0, n, gap)
    IN [d1 EXCEPT !.ops = Append(@, Op(k, d0.cur, d0.y, d1.cur, d1.y, t, r, a, b))]

\* doc.heightOfString(text, {width})
HeightOfString(d, n) == n * LH(d)


(***************************************************************************)
(* Inputs.  A text is given by the number of lines it wraps to; a table    *)
(* row by the line counts of its cells, one per column.                    *)
(***************************************************************************)
NumCols == 2

SeqsUpTo(S, n) == UNION {[1..k -> S] : k \in 0..n}

RowSet == [1..NumCols -> 1..MaxLines]

NoTable == [head |-> 0, rows |-> <<>>]

\* a heading of one line, or one that wraps to MaxHeadLines lines
HeadLines == {1, MaxHeadLines}

TableSet == [head : HeadLines, rows : SeqsUpTo(RowSet, MaxRows)]

\* values of options.margins.bottom tried; 0 stands for "not given"
OptBottoms == {0, 100}

\* a || b of the source for numbers: 0 (like undefined) selects the default
OrDefault(v, dflt) == IF v = 0 THEN dflt ELSE v

RowLines(row) ==
    LET RECURSIVE M(_)
        M(c) == IF c = 0 THEN 0 ELSE Max(row[c], M(c - 1))
    IN M(Len(row))

(***************************************************************************)
(* createPDFWithTable (src/modules/pdfWithTable.ts)                        *)
(***************************************************************************)
DEFAULT_FONT_SIZE == 12
DEFAULT_MARGINS_top == 72
DEFAULT_MARGINS_bottom == 72
HEADER_COMPANY_NAME_FONT_SIZE == 16
FOOTER_FONT_SIZE == 10
LetterHeight == 792

T1_NewDoc(o) ==
    NewDoc(mp(LetterHeight), mp(DEFAULT_MARGINS_top),
           mp(OrDefault(o.bottom, DEFAULT_MARGINS_bottom)), FALSE, "none")

\* the logo and the company name at DEFAULT_MARGINS.top / 2, then two lines down
T1_AddHeader(d, logo) ==
    LET top == mp(DEFAULT_MARGINS_top) \div 2
        d1 == IF logo THEN Log(d, "logo", top, top, 0, 0, 0, 0) ELSE d
        d2 == Text(SetFont(d1, HEADER_COMPANY_NAME_FONT_SIZE, TRUE),
                   "header", top, 1, 0, 0, 0, 0, 0)
    IN MoveDown(SetFont(d2, DEFAULT_FONT_SIZE, FALSE), 2)

T1_Header ==
    /\ prog = "T1" /\ pc = "header"
    /\ doc' = T1_AddHeader(doc, data.logo)
    /\ pc' = "content"
    /\ idx' = [idx EXCEPT !.i = 1]
    /\ UNCHANGED <<prog, status, opts, data, startY, totalPages, laidOut>>

\* one item of pdfData: a block tagged 'paragraph' is drawn and followed by
\* doc.moveDown(); a block with any other tag passes through the loop untouched
T1_Paragraph ==
    /\ prog = "T1" /\ pc = "content" /\ idx.i <= Len(data.items)
    /\ LET item == data.items[idx.i]
           gap == ((3 - 2) * mp(DEFAULT_FONT_SIZE)) \div 2   \* (lineHeight - 1) * fontSize
           d1 == Text(SetFont(doc, DEFAULT_FONT_SIZE, FALSE),
                      "para", NoY, item.lines, gap, 0, idx.i, 0, 0)
       IN doc' = IF item.tag = "paragraph" THEN MoveDown(d1, 1) ELSE doc
    /\ idx' = [idx EXCEPT !.i = @ + 1]
    /\ UNCHANGED <<prog, pc, status, opts, data, startY, totalPages, laidOut>>

\* the cells of one row (table t, row r), each a doc.text at the row's Y
RECURSIVE Cells(_, _, _, _, _, _, _)
Cells(d, k, row, c, y, t, r) ==
    IF c > Len(row) THEN d
    ELSE Cells(Text(d, k, y, row[c], 0, t, r, c, 0), k, row, c + 1, y, t, r)

\* the row the loop over the rows turns to after row r (brk: row r began a
\* new page): forEach and rowIndex++ take every row in turn
NextRow_SkipAfterBreak(r, brk) == IF brk THEN r + 2 ELSE r + 1
NextRow(r, brk) == r + 1

HeaderRow == [c \in 1..NumCols |-> 1]

\* the table heading, the column names and the separator under them
T1_TableHead ==
    /\ prog = "T1" /\ pc = "content" /\ idx.i > Len(data.items)
    /\ IF Len(data.table.rows) > 0
       THEN LET d1 == MoveDown(doc, 1)
                d2 == Text(SetFont(d1, DEFAULT_FONT_SIZE + 2, TRUE),
                           "heading", NoY, data.table.head, 0, 1, 0, 0, 0)
                d3 == MoveDown(d2, 1)
                d4 == Cells(d3, "colhdr", HeaderRow, 1, d3.y, 1, 0)
                d5 == [d4 EXCEPT !.bold = FALSE]
            IN /\ doc' = d5
               /\ startY' = d4.y + mp(5) + mp(10)
               /\ pc' = "rows"
               /\ idx' = [idx EXCEPT !.r = 1]
       ELSE /\ pc' = "footers"
            /\ UNCHANGED <<doc, startY, idx>>
    /\ UNCHANGED <<prog, status, opts, data, totalPages, laidOut>>

\* one iteration of tableData.items.forEach
T1_Row ==
    /\ prog = "T1" /\ pc = "rows" /\ idx.r <= Len(data.table.rows)
    /\ LET row == data.table.rows[idx.r]
           brk == startY + mp(20) > doc.H - mp(DEFAULT_MARGINS_bottom)
           d1 == IF brk THEN T1_AddHeader(AddPage(doc), data.logo) ELSE doc
           rowY == IF brk THEN d1.y ELSE startY
           maxRowHeight == HeightOfString(d1, RowLines(row))
           d2 == [d1 EXCEPT !.ops = Append(@,
                     Op("row", d1.cur, rowY, d1.cur, rowY + maxRowHeight,
                        1, idx.r, maxRowHeight, IF brk THEN 1 ELSE 0))]
           d3 == Cells(d2, "cell", row, 1, rowY, 1, idx.r)
       IN /\ doc' = d3
          /\ startY' = rowY + maxRowHeight + mp(5) + mp(10)
          /\ idx' = [idx EXCEPT !.r = NextRow(@, brk)]
    /\ UNCHANGED <<prog, pc, status, opts, data, totalPages, laidOut>>

T1_RowsDone ==
    /\ prog = "T1" /\ pc = "rows" /\ idx.r > Len(data.table.rows)
    /\ pc' = "footers"
    /\ UNCHANGED <<prog, status, doc, opts, data, startY, idx, totalPages, laidOut>>

\* const totalPages = doc.bufferedPageRange().count
T1_FooterStart ==
    /\ prog = "T1" /\ pc = "footers"
    /\ totalPages' = BufferedCount(doc)
    /\ idx' = [idx EXCEPT !.i = 0]
    /\ laidOut' = doc.np
    /\ pc' = "footer"
    /\ UNCHANGED <<prog, status, doc, opts, data, startY>>

\* one iteration of the footer loop: switchToPage(i), the date, "Page i+1 of N"
T1_Footer ==
    /\ prog = "T1" /\ pc = "footer" /\ idx.i < totalPages
    /\ IF CanSwitch(doc, idx.i)
       THEN LET pageBottom == doc.H - mp(DEFAULT_MARGINS_bottom) \div 2
                d1 == SetFont(SwitchToPage(doc, idx.i), FOOTER_FONT_SIZE, FALSE)
                d2 == Text(d1, "date", pageBottom, 1, 0, 0, 0, idx.i + 1, totalPages)
                d3 == Text(d2, "footer", pageBottom, 1, 0, 0, 0, idx.i + 1, totalPages)
            IN /\ doc' = d3
               /\ idx' = [idx EXCEPT !.i = @ + 1]
               /\ UNCHANGED <<pc, status>>
       ELSE /\ status' = "rejected"
            /\ pc' = "done"
            /\ UNCHANGED <<doc, idx>>
    /\ UNCHANGED <<prog, opts, data, startY, totalPages, laidOut>>

T1_Return ==
    /\ prog = "T1" /\ pc = "footer" /\ idx.i >= totalPages
    /\ status' = "resolved"
    /\ pc' = "done"
    /\ UNCHANGED <<prog, doc, opts, data, startY, idx, totalPages, laidOut>>

NoIdx == [t |-> 0, r |-> 0, c |-> 0, i |-> 0]

\* pdfData: no block, one paragraph, or a paragraph followed by the signature
\* and designation blocks of a letter
Block(tag, n) == [tag |-> tag, lines |-> n]

T1_Items ==
    {<< >>} \cup {<<Block("paragraph", n)>> : n \in 0..MaxParaLines}
            \cup {<<Block("paragraph", n), Block("signature", 1), Block("designation", 1)>> :
                     n \in {1, MaxLines}}

T1_Init ==
    /\ prog = "T1" /\ pc = "header" /\ status = "running"
    /\ opts \in [bottom : OptBottoms]
    /\ data \in [logo : BOOLEAN,
                 items : T1_Items,
                 table : TableSet]
    /\ doc = T1_NewDoc(opts)
    /\ startY = 0 /\ idx = NoIdx /\ totalPages = 0 /\ laidOut = 0

T1_Next ==
    \/ T1_Header \/ T1_Paragraph \/ T1_TableHead \/ T1_Row \/ T1_RowsDone
    \/ T1_FooterStart \/ T1_Footer \/ T1_Return

SpecT1 == T1_Init /\ [][T1_Next]_vars


(***************************************************************************)
(* createPDF (src/modules/pdfWithFooter.ts): header, one paragraph, the    *)
(* signature block, then the footer pass over the buffered pages.          *)
(***************************************************************************)
A4Height == 841890

NoOpt == 0 - 1

\* a ?? b of the source: only an absent value selects the default
OrElse(v, dflt) == IF v = NoOpt THEN dflt ELSE v

FT_margin == mp(OrElse(opts.margin, 60))

FT_NewDoc(margin) == NewDoc(A4Height, margin, margin, TRUE, "margin")

\* addHeaderWithLogo: returns the Y below the header
FT_AddHeaderWithLogo(d, logo, margin) ==
    LET logoWidth == mp(40)
        d1 == IF logo THEN Log(d, "logo", margin, margin + logoWidth, 0, 0, 0, 0) ELSE d
        d2 == Text(SetFont(d1, 16, TRUE), "header", margin, 1, 0, 0, 0, 0, 0)
        textHeight == (mp(16) * 12) \div 10
        maxHeight == Max(IF logo THEN logoWidth ELSE 0, textHeight)
    IN [d |-> d2, y |-> margin + maxHeight]

FT_Header ==
    /\ prog = "FT" /\ pc = "header"
    /\ LET h == FT_AddHeaderWithLogo(doc, data.logo, FT_margin)
       IN /\ doc' = h.d
          /\ startY' = h.y + mp(35)
    /\ pc' = "content"
    /\ UNCHANGED <<prog, status, opts, data, idx, totalPages, laidOut>>

\* doc.y = currentY; doc.text(paragraphText, {lineGap: 2})
FT_Paragraph ==
    /\ prog = "FT" /\ pc = "content"
    /\ doc' = Text(SetFont(doc, 12, FALSE), "para", startY, data.paras[1], mp(2), 0, 1, 0, 0)
    /\ pc' = "signature"
    /\ UNCHANGED <<prog, status, opts, data, startY, idx, totalPages, laidOut>>

\* addSignature: the name at yPosition, the designation 5 below the name's end
AddSignature(d, sig, yPosition) ==
    LET d1 == Text(SetFont(d, 12, TRUE), "signature", yPosition, sig.name, 0, 0, 0, 0, 0)
        d2 == SetFont(d1, 10, FALSE)
    IN Text(d2, "designation", d2.y + mp(5), sig.designation, 0, 0, 0, 0, 0)

FT_Signature ==
    /\ prog = "FT" /\ pc = "signature"
    /\ LET limit == doc.H - FT_margin - mp(80)
           signatureY == Min(doc.y + mp(50), limit)
       IN doc' = IF signatureY > limit
                 THEN AddSignature(AddPage(doc), data.sig, FT_margin + mp(40))
                 ELSE AddSignature(doc, data.sig, signatureY)
    /\ pc' = "footers"
    /\ UNCHANGED <<prog, status, opts, data, startY, idx, totalPages, laidOut>>

FT_FooterStart ==
    /\ prog = "FT" /\ pc = "footers"
    /\ totalPages' = BufferedCount(doc)
    /\ laidOut' = doc.np
    /\ idx' = [idx EXCEPT !.i = 0]
    /\ pc' = "footer"
    /\ UNCHANGED <<prog, status, doc, opts, data, startY>>

\* addFooterToPage: the date and "Page n of N" at page height - margin - 15
AddFooterToPage(d, pageNumber, total, margin, fontSize) ==
    LET footerY == d.H - margin - mp(15)
        d1 == Text(SetFont(d, fontSize, FALSE), "date", footerY, 1, 0, 0, 0, pageNumber, total)
    IN Text(d1, "footer", footerY, 1, 0, 0, 0, pageNumber, total)

FT_Footer ==
    /\ prog = "FT" /\ pc = "footer" /\ idx.i < totalPages
    /\ IF CanSwitch(doc, idx.i)
       THEN /\ doc' = AddFooterToPage(SwitchToPage(doc, idx.i), idx.i + 1, totalPages, FT_margin, 9)
            /\ idx' = [idx EXCEPT !.i = @ + 1]
            /\ UNCHANGED <<pc, status>>
       ELSE /\ status' = "rejected"
            /\ pc' = "done"
            /\ UNCHANGED <<doc, idx>>
    /\ UNCHANGED <<prog, opts, data, startY, totalPages, laidOut>>

\* doc.end(): the stream finishes and the promise resolves
FT_End ==
    /\ prog = "FT" /\ pc = "footer" /\ idx.i >= totalPages
    /\ status' = "resolved"
    /\ pc' = "done"
    /\ UNCHANGED <<prog, doc, opts, data, startY, idx, totalPages, laidOut>>

SigSet == [name : 1..MaxLines, designation : 1..MaxLines]

FT_Init ==
    /\ prog = "FT" /\ pc = "header" /\ status = "running"
    /\ opts \in [margin : {NoOpt, 40}]
    /\ data \in [logo : BOOLEAN, paras : [1..1 -> 0..(2 * MaxParaLines)], sig : SigSet]
    /\ doc = FT_NewDoc(FT_margin)
    /\ startY = 0 /\ idx = NoIdx /\ totalPages = 0 /\ laidOut = 0

FT_Next ==
    \/ FT_Header \/ FT_Paragraph \/ FT_Signature
    \/ FT_FooterStart \/ FT_Footer \/ FT_End

SpecFT == FT_Init /\ [][FT_Next]_vars

(***************************************************************************)
(* createMultipleTables and addProfessionalTable                           *)
(* (src/modules/pdfWithMultipleTables.ts)                                  *)
(***************************************************************************)
DEFAULT_MARGIN == 72
FONT_SIZES_header == 16
FONT_SIZES_text == 12
FONT_SIZES_tableHeading == 14
FONT_SIZES_tableHeader == 12
FONT_SIZES_tableCell == 11
FONT_SIZES_footer == 10
SPACING_headerToContent == 30
SPACING_paragraphToTable == 20
SPACING_tablesToTable == 30
SPACING_tableRowSpacing == 5
LOGO_MAX_HEIGHT == 50
FOOTER_MARGIN_BOTTOM == 15

MT_margin == mp(OrDefault(opts.margin, DEFAULT_MARGIN))

MT_NewDoc(margin) == NewDoc(mp(LetterHeight), margin, margin, FALSE, "none")

\* availableHeight = doc.page.height - (margin + FOOTER_MARGIN_BOTTOM + 20)
MT_availableHeight == doc.H - (MT_margin + mp(FOOTER_MARGIN_BOTTOM) + mp(20))

\* addElegantHeader: the logo (scaled into the 150 x 50 box) and the company
\* name at startY; returns the header height
MT_AddElegantHeader(d, logo, y) ==
    LET scaledHeight == mp(LOGO_MAX_HEIGHT)
        d1 == IF logo THEN Log(d, "logo", y, y + scaledHeight, 0, 0, 0, 0) ELSE d
        d2 == Text(SetFont(d1, FONT_SIZES_header, TRUE), "header", y, 1, 0, 0, 0, 0, 0)
    IN [d |-> d2,
        h |-> IF logo THEN Max(mp(FONT_SIZES_header), scaledHeight)
                      ELSE mp(FONT_SIZES_header)]

MT_Header ==
    /\ prog = "MT" /\ pc = "header"
    /\ LET h == MT_AddElegantHeader(doc, data.logo, MT_margin)
           currentY == MT_margin + h.h + mp(SPACING_headerToContent)
       IN /\ doc' = Log(h.d, "start", currentY, currentY, 0, 0, 0, 0)
          /\ startY' = currentY
    /\ pc' = "content"
    /\ UNCHANGED <<prog, status, opts, data, idx, totalPages, laidOut>>

\* if (paragraphText) { doc.text(...); currentY = doc.y + paragraphToTable }
MT_Paragraph ==
    /\ prog = "MT" /\ pc = "content"
    /\ IF data.paras[1] > 0
       THEN LET d1 == Text(SetFont(doc, FONT_SIZES_text, FALSE),
                           "para", startY, data.paras[1], mp(2), 0, 1, 0, 0)
            IN /\ doc' = d1
               /\ startY' = d1.y + mp(SPACING_paragraphToTable)
       ELSE UNCHANGED <<doc, startY>>
    /\ pc' = "tables"
    /\ idx' = [idx EXCEPT !.t = 1]
    /\ UNCHANGED <<prog, status, opts, data, totalPages, laidOut>>

\* a page break of the renderer: the new page and the cursor it resumes at
LogBreak(d, from, y) == Log(d, "break", y, y, 0, 0, from, 0)

MT_Heading(d, t, y, lines) ==
    Text(SetFont(d, FONT_SIZES_tableHeading, TRUE), "heading", y, lines, 0, t, 0, 0, 0)

\* the column names at y, the separator and the spacing around it;
\* returns the document and the Y of the first row
MT_ColumnHeader(d, t, y) ==
    LET d1 == Cells(SetFont(d, FONT_SIZES_tableHeader, TRUE), "colhdr", HeaderRow, 1, y, t, 0)
    IN [d |-> SetFont(d1, FONT_SIZES_tableCell, FALSE),
        y |-> d1.y + mp(SPACING_tableRowSpacing) + mp(SPACING_tableRowSpacing)]

\* one iteration of the loop over tables, up to the first row of
\* addProfessionalTable
MT_Table ==
    /\ prog = "MT" /\ pc = "tables" /\ idx.t <= Len(data.tables)
    /\ LET table == data.tables[idx.t]
           y0 == IF idx.t > 1 THEN startY + mp(SPACING_tablesToTable) ELSE startY
           brk0 == y0 + mp(100) > MT_availableHeight
           d0 == IF brk0 THEN LogBreak(AddPage(doc), doc.cur, MT_margin) ELSE doc
           y1 == IF brk0 THEN MT_margin ELSE y0
       IN IF Len(table.rows) = 0
          THEN /\ doc' = Log(d0, "tableend", y1, y1, idx.t, 0, 0, 0)
               /\ startY' = y1
               /\ idx' = [idx EXCEPT !.t = @ + 1]
               /\ pc' = "tables"
          ELSE LET d1 == MT_Heading(d0, idx.t, y1, table.head)
                   y2 == d1.y + mp(SPACING_tableRowSpacing)
                   brk1 == y2 + mp(40) > MT_availableHeight
                   d2 == IF brk1
                         THEN MT_Heading(LogBreak(AddPage(d1), d1.cur, MT_margin),
                                         idx.t, MT_margin, table.head)
                         ELSE d1
                   y3 == IF brk1 THEN d2.y + mp(SPACING_tableRowSpacing) ELSE y2
                   h == MT_ColumnHeader(d2, idx.t, y3)
               IN /\ doc' = h.d
                  /\ startY' = h.y
                  /\ idx' = [idx EXCEPT !.r = 1]
                  /\ pc' = "rows"
    /\ UNCHANGED <<prog, status, opts, data, totalPages, laidOut>>

\* one iteration of tableData.items.forEach in addProfessionalTable
MT_Row ==
    /\ prog = "MT" /\ pc = "rows" /\ idx.r <= Len(data.tables[idx.t].rows)
    /\ LET row == data.tables[idx.t].rows[idx.r]
           brk == startY + mp(30) > MT_availableHeight
           h == IF brk
                THEN MT_ColumnHeader(LogBreak(AddPage(doc), doc.cur, MT_margin), idx.t, MT_margin)
                ELSE [d |-> doc, y |-> startY]
           height == HeightOfString(h.d, RowLines(row))
           d1 == [h.d EXCEPT !.ops = Append(@,
                     Op("row", h.d.cur, h.y, h.d.cur, h.y + height,
                        idx.t, idx.r, height, IF brk THEN 1 ELSE 0))]
           d2 == Cells(d1, "cell", row, 1, h.y, idx.t, idx.r)
       IN /\ doc' = d2
          /\ startY' = d2.y + mp(SPACING_tableRowSpacing) + mp(SPACING_tableRowSpacing)
          /\ idx' = [idx EXCEPT !.r = NextRow(@, brk)]
    /\ UNCHANGED <<prog, pc, status, opts, data, totalPages, laidOut>>

\* return currentY
MT_TableEnd ==
    /\ prog = "MT" /\ pc = "rows" /\ idx.r > Len(data.tables[idx.t].rows)
    /\ doc' = Log(doc, "tableend", startY, startY, idx.t, 0, 0, 0)
    /\ idx' = [idx EXCEPT !.t = @ + 1]
    /\ pc' = "tables"
    /\ UNCHANGED <<prog, status, opts, data, startY, totalPages, laidOut>>

MT_FooterStart ==
    /\ prog = "MT" /\ pc = "tables" /\ idx.t > Len(data.tables)
    /\ totalPages' = BufferedCount(doc)
    /\ laidOut' = doc.np
    /\ idx' = [idx EXCEPT !.i = 0]
    /\ pc' = "footer"
    /\ UNCHANGED <<prog, status, doc, opts, data, startY>>

\* addElegantFooter: a rule, the date and "Page n of N" at
\* page height - margin - FOOTER_MARGIN_BOTTOM
AddElegantFooter(d, pageNumber, total, margin) ==
    LET footerY == d.H - margin - mp(FOOTER_MARGIN_BOTTOM)
        d1 == Text(SetFont(d, FONT_SIZES_footer, FALSE),
                   "date", footerY, 1, 0, 0, 0, pageNumber, total)
    IN Text(d1, "footer", footerY, 1, 0, 0, 0, pageNumber, total)

MT_Footer ==
    /\ prog = "MT" /\ pc = "footer" /\ idx.i < totalPages
    /\ IF CanSwitch(doc, idx.i)
       THEN /\ doc' = AddElegantFooter(SwitchToPage(doc, idx.i), idx.i + 1, totalPages, MT_margin)
            /\ idx' = [idx EXCEPT !.i = @ + 1]
            /\ UNCHANGED <<pc, status>>
       ELSE /\ status' = "rejected"
            /\ pc' = "done"
            /\ UNCHANGED <<doc, idx>>
    /\ UNCHANGED <<prog, opts, data, startY, totalPages, laidOut>>

MT_Resolve ==
    /\ prog = "MT" /\ pc = "footer" /\ idx.i >= totalPages
    /\ status' = "resolved"
    /\ pc' = "done"
    /\ UNCHANGED <<prog, doc, opts, data, startY, idx, totalPages, laidOut>>

\* paragraph lengths tried: none, or one that ends in the lower part of the page
MT_ParaLines == {0} \cup {n \in 1..MaxParaLines : n >= 28 /\ n <= 36}

MT_Init ==
    /\ prog = "MT" /\ pc = "header" /\ status = "running"
    /\ opts \in [margin : {0}]
    /\ data \in [logo : BOOLEAN,
                 paras : [1..1 -> MT_ParaLines],
                 tables : SeqsUpTo(TableSet, MaxTables)]
    /\ doc = MT_NewDoc(MT_margin)
    /\ startY = 0 /\ idx = NoIdx /\ totalPages = 0 /\ laidOut = 0

MT_Next ==
    \/ MT_Header \/ MT_Paragraph \/ MT_Table \/ MT_Row \/ MT_TableEnd
    \/ MT_FooterStart \/ MT_Footer \/ MT_Resolve

SpecMT == MT_Init /\ [][MT_Next]_vars

(***************************************************************************)
(* createPDFWithBarsAndPie, addTablesToDocument, addDocumentHeader,        *)
(* drawBarChart and drawPieChart (src/modules/pdfWithCharts.ts)            *)
(***************************************************************************)
MaxCharts == 2
MaxData == 2

A4Width == 595280

\* natural size of the logo image, in pixels
LogoNatural == [w |-> 300, h |-> 100]

ChartWidths == {0, 480}
ChartHeights == {0, 180}

\* a chart: its kind, whether it has a title, its width and height
\* (0: not given) and the number of data entries, all of the same value;
\* n = 0 is a chart whose data is the empty array
ChartSet == [type : {"bar", "pie"}, title : BOOLEAN,
             width : ChartWidths, height : ChartHeights, n : 0..MaxData]

\* the rows tried in a table of addTablesToDocument: cells of equal height
CH_RowSet == {[c \in 1..NumCols |-> n] : n \in 1..MaxLines}

\* a table of addTablesToDocument: head = 0 stands for "no title"
CH_TableSet == [head : {0, 1}, rows : SeqsUpTo(CH_RowSet, MaxRows)]

\* mergedOptions.pageMargin || 50
CH_pageMargin == mp(OrDefault(opts.margin, 50))

CH_NewDoc(margin) == NewDoc(A4Height, margin, margin, TRUE, "none")

\* the logo (options.logoWidth || 100 wide) and the company name beside it,
\* or the company name alone at the top margin
AddDocumentHeader(d, logo, margin) ==
    LET logoWidth == 100
        logoHeight == (LogoNatural.h * mp(logoWidth)) \div LogoNatural.w
        d1 == IF logo THEN Log(d, "logo", margin, margin + logoHeight, 0, 0, 0, 0) ELSE d
        y == IF logo THEN margin + logoHeight \div 2 - mp(10) ELSE margin
    IN Text(SetFont(d1, 16, TRUE), "header", y, 1, 0, 0, 0, 0, 0)

CH_Header ==
    /\ prog = "CH" /\ pc = "header"
    /\ LET d1 == MoveDown(AddDocumentHeader(doc, data.logo, CH_pageMargin), 3)
       IN doc' = Log(SetFont(d1, 12, FALSE), "start", d1.y, d1.y, 0, 0, 0, 0)
    /\ pc' = "tables"
    /\ idx' = [idx EXCEPT !.t = 1]
    /\ UNCHANGED <<prog, status, opts, data, startY, totalPages, laidOut>>

\* padding.top + fontSize + padding.bottom
CH_RowHeight(fontSize) == mp(5) + mp(fontSize) + mp(5)

\* the title and the header row of the next table
CH_Table ==
    /\ prog = "CH" /\ pc = "tables" /\ idx.t <= Len(data.tables)
    /\ LET table == data.tables[idx.t]
           d1 == IF table.head > 0
                 THEN MoveDown(Text(SetFont(doc, 14, TRUE), "heading", NoY,
                                    table.head, 0, idx.t, 0, 0, 0), 1)
                 ELSE doc
           y0 == d1.y
           d2 == Cells(SetFont(d1, 12, TRUE), "colhdr", HeaderRow, 1, y0 + mp(5), idx.t, 0)
       IN /\ doc' = SetFont(d2, 10, FALSE)
          /\ startY' = y0 + CH_RowHeight(12)
    /\ idx' = [idx EXCEPT !.r = 1]
    /\ pc' = "rows"
    /\ UNCHANGED <<prog, status, opts, data, totalPages, laidOut>>

\* one iteration of the loop over table.rows
CH_Row ==
    /\ prog = "CH" /\ pc = "rows" /\ idx.r <= Len(data.tables[idx.t].rows)
    /\ LET row == data.tables[idx.t].rows[idx.r]
           rowHeight == CH_RowHeight(10)
           brk == startY + rowHeight > doc.H - CH_pageMargin - mp(60)
           d1 == IF brk
                 THEN LET n1 == AddPage(doc)
                          n2 == MoveDown(AddDocumentHeader(n1, data.logo, CH_pageMargin), 3)
                      IN SetFont(LogBreak(n2, doc.cur, n2.y), 10, FALSE)
                 ELSE doc
           y == IF brk THEN d1.y ELSE startY
           d2 == [d1 EXCEPT !.ops = Append(@,
                     Op("row", d1.cur, y, d1.cur, y + rowHeight,
                        idx.t, idx.r, rowHeight, IF brk THEN 1 ELSE 0))]
       IN /\ doc' = Cells(d2, "cell", row, 1, y + mp(5), idx.t, idx.r)
          /\ startY' = y + rowHeight
          /\ idx' = [idx EXCEPT !.r = NextRow(@, brk)]
    /\ UNCHANGED <<prog, pc, status, opts, data, totalPages, laidOut>>

\* doc.moveDown(2) after the last row
CH_TableEnd ==
    /\ prog = "CH" /\ pc = "rows" /\ idx.r > Len(data.tables[idx.t].rows)
    /\ doc' = MoveDown(doc, 2)
    /\ idx' = [idx EXCEPT !.t = @ + 1]
    /\ pc' = "tables"
    /\ UNCHANGED <<prog, status, opts, data, startY, totalPages, laidOut>>

CH_TablesDone ==
    /\ prog = "CH" /\ pc = "tables" /\ idx.t > Len(data.tables)
    /\ idx' = [idx EXCEPT !.c = 1]
    /\ pc' = "charts"
    /\ UNCHANGED <<prog, status, doc, opts, data, startY, totalPages, laidOut>>

\* n texts of one line each, at the Ys given by the function ys
RECURSIVE Labels(_, _, _, _, _, _)
Labels(d, k, ys, i, n, t) ==
    IF i > n THEN d
    ELSE Labels(Text(d, k, ys[i], 1, 0, t, i, 0, 0), k, ys, i + 1, n, t)

\* drawBarChart: axes, six scale values, the bars and a label under each;
\* returns the document and the lowest Y drawn
DrawBarChart(d, chart, t) ==
    LET chartHeight == mp(OrDefault(chart.height, 300))
        y0 == d.y
        endY == y0 + chartHeight
        scaleSteps == 5
        d1 == Labels(SetFont(d, 8, d.bold), "scale",
                     [i \in 1..(scaleSteps + 1) |->
                         y0 + ((i - 1) * chartHeight) \div scaleSteps - mp(5)],
                     1, scaleSteps + 1, t)
        d2 == Labels(d1, "label", [i \in 1..chart.n |-> endY + mp(5)], 1, chart.n, t)
    IN [d |-> [d2 EXCEPT !.y = endY + mp(40)], low |-> d2.y]

\* sin of the middle angle of wedge i of n equal wedges, starting at -pi/2
MidSin(i, n) == IF n = 1 THEN 1 ELSE 0

\* drawPieChart: the wedges with a percentage inside each, and the legend;
\* returns the document and the lowest Y drawn
DrawPieChart(d, chart, t, margin) ==
    LET pageWidth == A4Width - 2 * margin
        chartWidth == IF chart.width = 0 THEN (pageWidth * 7) \div 10 ELSE mp(chart.width)
        chartHeight == IF chart.height = 0 THEN chartWidth ELSE mp(chart.height)
        centerY == d.y + chartHeight \div 2
        radius == ((chartWidth \div 2) * 8) \div 10
        labelRadius == (radius * 6) \div 10
        d1 == Labels(SetFont(d, 9, d.bold), "percent",
                     [i \in 1..chart.n |-> centerY + MidSin(i, chart.n) * labelRadius - mp(6)],
                     1, chart.n, t)
        legendY == centerY - (chart.n * mp(15)) \div 2
        d2 == Labels(d1, "legend", [i \in 1..chart.n |-> legendY + (i - 1) * mp(15)],
                     1, chart.n, t)
    IN [d |-> [d2 EXCEPT !.y = centerY + radius + mp(20)],
        low |-> Max(centerY + radius, d2.y)]

\* one iteration of the loop over charts
CH_Chart ==
    /\ prog = "CH" /\ pc = "charts" /\ idx.c <= Len(data.charts)
    /\ LET chart == data.charts[idx.c]
           chartHeight == mp(OrDefault(chart.height, 300))
           brk == doc.y + chartHeight + mp(50) > doc.H - CH_pageMargin - mp(60)
           d0 == IF brk
                 THEN LET n1 == AddDocumentHeader(AddPage(doc), data.logo, CH_pageMargin)
                      IN LogBreak(n1, doc.cur, n1.y)
                 ELSE doc
           d1 == IF chart.title
                 THEN MoveDown(Text(SetFont(d0, 14, TRUE), "title", NoY, 1, 0,
                                    idx.c, 0, 0, 0), 1)
                 ELSE d0
           c == IF chart.type = "bar"
                THEN DrawBarChart(d1, chart, idx.c)
                ELSE DrawPieChart(d1, chart, idx.c, CH_pageMargin)
           d2 == [c.d EXCEPT !.ops = Append(@,
                     Op("chart", d0.cur, d0.y, c.d.cur, c.low, idx.c, 0,
                        chartHeight, IF brk THEN 1 ELSE 0))]
       IN doc' = MoveDown(d2, 2)
    /\ idx' = [idx EXCEPT !.c = @ + 1]
    /\ UNCHANGED <<prog, pc, status, opts, data, startY, totalPages, laidOut>>

CH_FooterStart ==
    /\ prog = "CH" /\ pc = "charts" /\ idx.c > Len(data.charts)
    /\ totalPages' = BufferedCount(doc)
    /\ laidOut' = doc.np
    /\ idx' = [idx EXCEPT !.i = 0]
    /\ pc' = "footer"
    /\ UNCHANGED <<prog, status, doc, opts, data, startY>>

\* doc.switchToPage(i); doc.fontSize(10).text(`Page i+1 of N`, 0, H - margin - 20)
CH_Footer ==
    /\ prog = "CH" /\ pc = "footer" /\ idx.i < totalPages
    /\ IF CanSwitch(doc, idx.i)
       THEN /\ doc' = Text(SetFont(SwitchToPage(doc, idx.i), 10, doc.bold), "footer",
                           doc.H - CH_pageMargin - mp(20), 1, 0, 0, 0, idx.i + 1, totalPages)
            /\ idx' = [idx EXCEPT !.i = @ + 1]
            /\ UNCHANGED <<pc, status>>
       ELSE /\ status' = "rejected"
            /\ pc' = "done"
            /\ UNCHANGED <<doc, idx>>
    /\ UNCHANGED <<prog, opts, data, startY, totalPages, laidOut>>

CH_End ==
    /\ prog = "CH" /\ pc = "footer" /\ idx.i >= totalPages
    /\ status' = "resolved"
    /\ pc' = "done"
    /\ UNCHANGED <<prog, doc, opts, data, startY, idx, totalPages, laidOut>>

CH_Init ==
    /\ prog = "CH" /\ pc = "header" /\ status = "running"
    /\ opts \in [margin : {0}]
    /\ data \in [logo : BOOLEAN,
                 tables : SeqsUpTo(CH_TableSet, 1),
                 charts : SeqsUpTo(ChartSet, MaxCharts)]
    /\ doc = CH_NewDoc(CH_pageMargin)
    /\ startY = 0 /\ idx = NoIdx /\ totalPages = 0 /\ laidOut = 0

CH_Next ==
    \/ CH_Header \/ CH_Table \/ CH_Row \/ CH_TableEnd \/ CH_TablesDone
    \/ CH_Chart \/ CH_FooterStart \/ CH_Footer \/ CH_End

SpecCH == CH_Init /\ [][CH_Next]_vars

(***************************************************************************)
(* createPDFWithTable with page counters kept by a 'pageAdded' listener    *)
(* (unnamed/part_007)                                                      *)
(***************************************************************************)
T2_NewDoc(o) ==
    NewDoc(mp(LetterHeight), mp(DEFAULT_MARGINS_top),
           mp(OrDefault(o.bottom, DEFAULT_MARGINS_bottom)), FALSE, "count")

\* addHeader(): the logo and the company name at headerTopOffset, the
\* content font restored, two lines down
T2_AddHeader(d, logo) ==
    LET pageTop == mp(DEFAULT_MARGINS_top) \div 2
        d1 == IF logo THEN Log(d, "logo", pageTop, pageTop + mp(LOGO_MAX_HEIGHT), 0, 0, 0, 0)
                      ELSE d
        d2 == Text(SetFont(d1, HEADER_COMPANY_NAME_FONT_SIZE, TRUE),
                   "header", pageTop, 1, 0, 0, 0, 0, 0)
    IN MoveDown(SetFont(d2, DEFAULT_FONT_SIZE, FALSE), 2)

T2_Header ==
    /\ prog = "T2" /\ pc = "header"
    /\ doc' = T2_AddHeader(doc, data.logo)
    /\ pc' = "content"
    /\ idx' = [idx EXCEPT !.i = 1]
    /\ UNCHANGED <<prog, status, opts, data, startY, totalPages, laidOut>>

\* one iteration of the loop over pdfData: switch (item.attributeType)
T2_Item ==
    /\ prog = "T2" /\ pc = "content" /\ idx.i <= Len(data.items)
    /\ LET item == data.items[idx.i]
           gap == ((3 - 2) * mp(DEFAULT_FONT_SIZE)) \div 2   \* (lineHeight - 1) * fontSize
       IN doc' =
            CASE item.tag = "paragraph" ->
                    MoveDown(Text(SetFont(doc, DEFAULT_FONT_SIZE, FALSE), "para", NoY,
                                  item.lines, gap, 0, idx.i, 0, 0), 1)
              [] item.tag = "signature" ->
                    Text(SetFont(doc, DEFAULT_FONT_SIZE, TRUE), "signature", NoY,
                         item.lines, 0, 0, idx.i, 0, 0)
              [] item.tag = "designation" ->
                    MoveDown(Text(SetFont(doc, DEFAULT_FONT_SIZE - 2, FALSE), "designation",
                                  NoY, item.lines, 0, 0, idx.i, 0, 0), 1)
              [] OTHER -> doc
    /\ idx' = [idx EXCEPT !.i = @ + 1]
    /\ UNCHANGED <<prog, pc, status, opts, data, startY, totalPages, laidOut>>

\* the table heading, the column names and the separator under them
T2_TableHead ==
    /\ prog = "T2" /\ pc = "content" /\ idx.i > Len(data.items)
    /\ IF Len(data.table.rows) > 0
       THEN LET d1 == MoveDown(doc, 1)
                d2 == MoveDown(Text(SetFont(d1, DEFAULT_FONT_SIZE + 2, TRUE), "heading", NoY,
                                    data.table.head, 0, 1, 0, 0, 0), 1)
                d3 == SetFont(d2, DEFAULT_FONT_SIZE, TRUE)
                yPos == d3.y
                d4 == Cells(d3, "colhdr", HeaderRow, 1, yPos, 1, 0)
                d5 == [d4 EXCEPT !.y = yPos + mp(DEFAULT_FONT_SIZE) + mp(5)]
            IN /\ doc' = SetFont(MoveDownHalves(d5, 1), DEFAULT_FONT_SIZE, FALSE)
               /\ idx' = [idx EXCEPT !.r = 1]
               /\ pc' = "rows"
       ELSE /\ pc' = "footer"
            /\ UNCHANGED <<doc, idx>>
    /\ UNCHANGED <<prog, status, opts, data, startY, totalPages, laidOut>>

\* one iteration of tableData.items.forEach
T2_Row ==
    /\ prog = "T2" /\ pc = "rows" /\ idx.r <= Len(data.table.rows)
    /\ LET row == data.table.rows[idx.r]
           brk == doc.y + 5 * mp(DEFAULT_FONT_SIZE) > doc.H - mp(DEFAULT_MARGINS_bottom)
           d1 == IF brk
                 THEN LET n1 == T2_AddHeader(AddPage(doc), data.logo)
                      IN LogBreak(n1, doc.cur, n1.y)
                 ELSE doc
           yPos == d1.y
           d2 == [d1 EXCEPT !.ops = Append(@,
                     Op("row", d1.cur, yPos, d1.cur, yPos + HeightOfString(d1, RowLines(row)),
                        1, idx.r, HeightOfString(d1, RowLines(row)), IF brk THEN 1 ELSE 0))]
           d3 == Cells(d2, "cell", row, 1, yPos, 1, idx.r)
           d4 == [d3 EXCEPT !.y = yPos + mp(DEFAULT_FONT_SIZE) + mp(5)]
       IN doc' = MoveDownHalves(d4, 1)
    /\ idx' = [idx EXCEPT !.r = @ + 1]
    /\ UNCHANGED <<prog, pc, status, opts, data, startY, totalPages, laidOut>>

T2_RowsDone ==
    /\ prog = "T2" /\ pc = "rows" /\ idx.r > Len(data.table.rows)
    /\ pc' = "footer"
    /\ UNCHANGED <<prog, status, doc, opts, data, startY, idx, totalPages, laidOut>>

\* addFooter(), called once after the content: the date, then the page text
\* built from the counters as they are after the date was drawn
T2_AddFooter(d) ==
    LET pageBottom == d.H - mp(DEFAULT_MARGINS_bottom) \div 2
        d1 == Text(SetFont(d, FOOTER_FONT_SIZE, FALSE), "date", pageBottom, 1, 0, 0, 0, 0, 0)
    IN Text(d1, "footer", pageBottom, 1, 0, 0, 0, d1.cnt.current, d1.cnt.total)

\* addFooter(); doc.on('pageAdded', ...); return doc
T2_Footer ==
    /\ prog = "T2" /\ pc = "footer"
    /\ laidOut' = doc.np
    /\ totalPages' = doc.cnt.total
    /\ doc' = [T2_AddFooter(doc) EXCEPT !.on = "stamp"]
    /\ status' = "resolved"
    /\ pc' = "done"
    /\ UNCHANGED <<prog, opts, data, startY, idx>>

\* pdfData tried: a paragraph followed by a signature and its designation
T2_Items ==
    {<<[tag |-> "paragraph", lines |-> n],
       [tag |-> "signature", lines |-> s.name],
       [tag |-> "designation", lines |-> s.designation]>> :
        n \in 1..MaxParaLines, s \in SigSet}

T2_Init ==
    /\ prog = "T2" /\ pc = "header" /\ status = "running"
    /\ opts \in [bottom : OptBottoms]
    /\ data \in [logo : BOOLEAN, items : T2_Items, table : {NoTable} \cup TableSet]
    /\ doc = T2_NewDoc(opts)
    /\ startY = 0 /\ idx = NoIdx /\ totalPages = 0 /\ laidOut = 0

T2_Next ==
    \/ T2_Header \/ T2_Item \/ T2_TableHead \/ T2_Row \/ T2_RowsDone \/ T2_Footer

SpecT2 == T2_Init /\ [][T2_Next]_vars

(***************************************************************************)
(* createParagraphsPDF of src/modules/pdfWithParagraphs.ts: a list of      *)
(* paragraphs on letter pages.  A paragraph is null or a string; of a      *)
(* string the layout reads whether it has characters at all, whether any   *)
(* of them is not white space, and the lines its text wraps to.            *)
(***************************************************************************)
MaxParas == 3
LongParaLines == 20

NullPara == [null |-> TRUE, ws |-> 0, lines |-> 0]

StringPara(ws, lines) == [null |-> FALSE, ws |-> ws, lines |-> lines]

\* the paragraphs tried: null, '', '   ', a one-line and a long text
ParaSet ==
    {NullPara, StringPara(0, 0), StringPara(3, 0),
     StringPara(0, 1), StringPara(0, LongParaLines)}

\* JavaScript truthiness of a string-or-null value
Truthy(p) == ~ p.null /\ (p.ws + p.lines > 0)

\* String.prototype.trim: the leading and trailing white space is removed
Trim(p) == [p EXCEPT !.ws = 0]

\* the number of lines doc.text lays a string out on: a string of white space
\* alone is still one line
TextLines(p) == IF p.lines > 0 THEN p.lines ELSE 1

PP_NewDoc(o) ==
    NewDoc(mp(LetterHeight), mp(OrElse(o.top, 72)), mp(OrElse(o.bottom, 72)), FALSE, "none")

\* the callback without the trim: only null and '' are skipped
PP_IsDrawn_NoTrim(p) == Truthy(p)

\* the test of the forEach callback: paragraph && paragraph.trim()
PP_IsDrawn(p) == Truthy(p) /\ Truthy(Trim(p))

\* the forEach callback: the paragraph's text, then doc.moveDown()
PP_AddParagraph(d, p, i) ==
    IF PP_IsDrawn(p)
    THEN MoveDown(Text(d, "para", NoY, TextLines(p), mp(6), 0, i, 0, 0), 1)
    ELSE d

PP_Paragraph ==
    /\ prog = "PP" /\ pc = "content" /\ idx.i <= Len(data.paras)
    /\ doc' = PP_AddParagraph(doc, data.paras[idx.i], idx.i)
    /\ idx' = [idx EXCEPT !.i = @ + 1]
    /\ UNCHANGED <<prog, pc, status, opts, data, startY, totalPages, laidOut>>

\* doc.end(): the 'end' listener resolves with the concatenated chunks
PP_End ==
    /\ prog = "PP" /\ pc = "content" /\ idx.i > Len(data.paras)
    /\ status' = "resolved"
    /\ pc' = "done"
    /\ totalPages' = doc.np
    /\ UNCHANGED <<prog, doc, opts, data, startY, idx, laidOut>>

PP_Init ==
    /\ prog = "PP" /\ pc = "content" /\ status = "running"
    /\ opts \in [top : {NoOpt}, bottom : {NoOpt, 100}]
    /\ data \in [paras : SeqsUpTo(ParaSet, MaxParas)]
    /\ doc = PP_NewDoc(opts)
    /\ startY = 0 /\ idx = [NoIdx EXCEPT !.i = 1] /\ totalPages = 0 /\ laidOut = 0

PP_Next == PP_Paragraph \/ PP_End

SpecPP == PP_Init /\ [][PP_Next]_vars

(***************************************************************************)
(* The cells of a table, as createPDFWithTable of src/modules/pdfWithTable *)
(* draws them: a row is an object, here the ordered list of its            *)
(* properties; a value is a string or a number.                            *)
(***************************************************************************)
MaxItems == 2
MaxKeys == 2
LetterWidth == 612
DEFAULT_MARGINS_left == 72
DEFAULT_MARGINS_right == 72

KeyNames == <<"name", "qty", "price", "note">>

StringValue(s) == [t |-> "string", s |-> s, n |-> 0]

NumberValue(n) == [t |-> "number", s |-> << >>, n |-> n]

Undefined == [t |-> "undefined", s |-> << >>, n |-> 0]

\* the values tried: '', 'x', 0, 7 and 12
ValueSet ==
    {StringValue(<< >>), StringValue(<<"x">>), NumberValue(0), NumberValue(7), NumberValue(12)}

Property(k, v) == [key |-> k, val |-> v]

\* the objects over the first MaxKeys names, in either order of insertion
ItemSet ==
    LET K == {KeyNames[j] : j \in 1..MaxKeys}
    IN {<< >>}
       \cup {<<Property(k, v)>> : k \in K, v \in ValueSet}
       \cup {<<Property(k1, v1), Property(k2, v2)>> :
               k1 \in {KeyNames[1]}, k2 \in {KeyNames[MaxKeys]} \ {KeyNames[1]},
               v1 \in ValueSet, v2 \in {StringValue(<<"x">>), NumberValue(0)}}
       \cup {<<Property(k2, v2), Property(k1, v1)>> :
               k1 \in {KeyNames[1]}, k2 \in {KeyNames[MaxKeys]} \ {KeyNames[1]},
               v1 \in {NumberValue(7)}, v2 \in {StringValue(<<"x">>), NumberValue(0)}}

\* Object.keys(item): the property names in insertion order
ObjectKeys(item) == [j \in 1..Len(item) |-> item[j].key]

HasKey(item, name) == \E j \in 1..Len(item) : item[j].key = name

\* item[name]: the property's value, undefined when the object lacks it
Get(item, name) ==
    IF HasKey(item, name)
    THEN item[CHOOSE j \in 1..Len(item) : item[j].key = name].val
    ELSE Undefined

DigitChars == <<"0", "1", "2", "3", "4", "5", "6", "7", "8", "9">>

\* Number.prototype.toString of a natural number: its decimal digits
RECURSIVE NumberToString(_)
NumberToString(n) ==
    IF n < 10 THEN <<DigitChars[n + 1]>>
    ELSE NumberToString(n \div 10) \o <<DigitChars[(n % 10) + 1]>>

\* String(v)
StringOf(v) ==
    CASE v.t = "string" -> v.s
      [] v.t = "number" -> NumberToString(v.n)
      [] OTHER -> <<"u", "n", "d", "e", "f", "i", "n", "e", "d">>

\* JavaScript falsiness of undefined, a string or a number
Falsy(v) ==
    \/ v.t = "undefined"
    \/ v.t = "string" /\ v.s = << >>
    \/ v.t = "number" /\ v.n = 0

\* String(row[name] || '')
CellContent(v) == StringOf(IF Falsy(v) THEN StringValue(<< >>) ELSE v)

TC_tableWidth == mp(LetterWidth) - mp(DEFAULT_MARGINS_left) - mp(DEFAULT_MARGINS_right)

TC_columnNames == ObjectKeys(data.items[1])

TC_columnWidth == TC_tableWidth \div Len(TC_columnNames)

CellOp(k, r, c, x, w, text) == [k |-> k, r |-> r, c |-> c, x |-> x, w |-> w, text |-> text]

\* columnNames.forEach: one doc.text per column, startX advancing by columnWidth
RECURSIVE TC_Cells(_, _, _, _, _, _)
TC_Cells(ops, k, item, r, c, x) ==
    IF c > Len(TC_columnNames) THEN ops
    ELSE LET name == TC_columnNames[c]
             text == IF k = "colhdr" THEN <<name>> ELSE CellContent(Get(item, name))
         IN TC_Cells(Append(ops, CellOp(k, r, c, x, TC_columnWidth, text)),
                     k, item, r, c + 1, x + TC_columnWidth)

\* the guard of the table block, then the header row
TC_Header ==
    /\ prog = "TC" /\ pc = "table"
    /\ IF Len(data.items) > 0
       THEN /\ doc' = [doc EXCEPT !.ops =
                          TC_Cells(@, "colhdr", << >>, 0, 1, mp(DEFAULT_MARGINS_left))]
            /\ pc' = "rows"
       ELSE /\ pc' = "done" /\ doc' = doc
    /\ idx' = [idx EXCEPT !.r = 1]
    /\ UNCHANGED <<prog, status, opts, data, startY, totalPages, laidOut>>

\* one iteration of tableData.items.forEach: the cells of the row
TC_Row ==
    /\ prog = "TC" /\ pc = "rows" /\ idx.r <= Len(data.items)
    /\ doc' = [doc EXCEPT !.ops =
                  TC_Cells(@, "cell", data.items[idx.r], idx.r, 1, mp(DEFAULT_MARGINS_left))]
    /\ idx' = [idx EXCEPT !.r = @ + 1]
    /\ UNCHANGED <<prog, pc, status, opts, data, startY, totalPages, laidOut>>

TC_RowsDone ==
    /\ prog = "TC" /\ pc = "rows" /\ idx.r > Len(data.items)
    /\ pc' = "done"
    /\ UNCHANGED <<prog, status, doc, opts, data, startY, idx, totalPages, laidOut>>

TC_Init ==
    /\ prog = "TC" /\ pc = "table" /\ status = "running"
    /\ opts = [bottom |-> 0]
    /\ data \in [items : SeqsUpTo(ItemSet, MaxItems)]
    /\ doc = [ops |-> << >>]
    /\ startY = 0 /\ idx = NoIdx /\ totalPages = 0 /\ laidOut = 0

TC_Next == TC_Header \/ TC_Row \/ TC_RowsDone

SpecTC == TC_Init /\ [][TC_Next]_vars

(***************************************************************************)
(* createHeaderedParagraphsPDF of src/modules/pdfWithParagraphs.ts: the    *)
(* logo is fetched first, then the header and the paragraphs are laid out  *)
(* on letter pages.                                                        *)
(***************************************************************************)
\* what fetching and decoding the logo can come to
LogoOutcomes == {"ok", "unreachable", "undecodable"}

\* natural sizes of the logo, in pixels
HP_LogoSizes == {[w |-> 300, h |-> 100], [w |-> 100, h |-> 200], [w |-> 40, h |-> 20]}

\* fetchLogo: axios.get throws for an unreachable URL and the error is
\* rethrown; data that image-size cannot read gets the fallback size
FetchLogo(outcome, size) ==
    CASE outcome = "unreachable" -> [thrown |-> TRUE, data |-> outcome, w |-> 0, h |-> 0]
      [] outcome = "undecodable" -> [thrown |-> FALSE, data |-> outcome, w |-> 100, h |-> 50]
      [] OTHER -> [thrown |-> FALSE, data |-> outcome, w |-> size.w, h |-> size.h]

\* addHeaderWithLogo: the width is capped first, then the height.  In the
\* second step logoWidth * (maxLogoHeight / logoHeight) is w * maxH / h for
\* either value step one left in logoWidth and logoHeight.
HP_ScaleLogo(w, h, maxW, maxH) ==
    LET w1 == IF mp(w) > maxW THEN maxW ELSE mp(w)
        h1 == IF mp(w) > maxW THEN (h * maxW) \div w ELSE mp(h)
        h2 == IF h1 > maxH THEN maxH ELSE h1
        w2 == IF h1 > maxH THEN (w * maxH) \div h ELSE w1
    IN [w |-> w2, h |-> h2]

HP_NewDoc == NewDoc(mp(LetterHeight), mp(72), mp(72), FALSE, "none")

\* await fetchLogo(logoUrl): a failure is rethrown as 'Failed to fetch logo'
HP_FetchLogo ==
    /\ prog = "HP" /\ pc = "fetch"
    /\ IF FetchLogo(data.logo, data.size).thrown
       THEN status' = "rejected" /\ pc' = "done"
       ELSE status' = status /\ pc' = "header"
    /\ UNCHANGED <<prog, doc, opts, data, startY, idx, totalPages, laidOut>>

\* addHeaderWithLogo and the spacing after it; doc.image throws on data that
\* is no image, and the catch of the executor rejects
HP_Header ==
    /\ prog = "HP" /\ pc = "header"
    /\ LET logo == FetchLogo(data.logo, data.size)
           s == HP_ScaleLogo(logo.w, logo.h, mp(150), mp(50))
           y0 == doc.y
           d1 == Log(doc, "logo", y0, y0 + s.h, 0, 0, s.w, s.h)
           d2 == Text(SetFont(d1, 18, TRUE), "header",
                      y0 + (s.h \div 2) - mp(9), 1, 0, 0, 0, 1, 0)
           d3 == [d2 EXCEPT !.y = Max(y0 + s.h, y0 + mp(18))]
       IN IF logo.data = "undecodable"
          THEN /\ status' = "rejected" /\ pc' = "done" /\ doc' = doc
          ELSE /\ doc' = SetFont(MoveDownHalves(d3, 5), 12, FALSE)
               /\ status' = status /\ pc' = "content"
    /\ idx' = [idx EXCEPT !.i = 1]
    /\ UNCHANGED <<prog, opts, data, startY, totalPages, laidOut>>

HP_Paragraph ==
    /\ prog = "HP" /\ pc = "content" /\ idx.i <= Len(data.paras)
    /\ doc' = PP_AddParagraph(doc, data.paras[idx.i], idx.i)
    /\ idx' = [idx EXCEPT !.i = @ + 1]
    /\ UNCHANGED <<prog, pc, status, opts, data, startY, totalPages, laidOut>>

HP_End ==
    /\ prog = "HP" /\ pc = "content" /\ idx.i > Len(data.paras)
    /\ status' = "resolved"
    /\ pc' = "done"
    /\ totalPages' = doc.np
    /\ UNCHANGED <<prog, doc, opts, data, startY, idx, laidOut>>

HP_Init ==
    /\ prog = "HP" /\ pc = "fetch" /\ status = "running"
    /\ opts = [bottom |-> NoOpt]
    /\ data \in [logo : LogoOutcomes, size : HP_LogoSizes,
                 paras : SeqsUpTo({StringPara(0, 1), StringPara(0, LongParaLines)}, MaxParas)]
    /\ doc = HP_NewDoc
    /\ startY = 0 /\ idx = NoIdx /\ totalPages = 0 /\ laidOut = 0

HP_Next == HP_FetchLogo \/ HP_Header \/ HP_Paragraph \/ HP_End

SpecHP == HP_Init /\ [][HP_Next]_vars

(***************************************************************************)
(* The size a logo is drawn at, as each header routine computes it from    *)
(* the logo's natural size.  Sizes are exact fractions of a point.         *)
(***************************************************************************)
LOGO_MAX_WIDTH == 150

RECURSIVE GCD(_, _)
GCD(a, b) == IF b = 0 THEN a ELSE GCD(b, a % b)

\* the fraction n / d, in lowest terms
Frac(n, d) == [n |-> n \div GCD(n, d), d |-> d \div GCD(n, d)]

FracLeq(a, b) == a.n * b.d <= b.n * a.d

FracEq(a, b) == a.n * b.d = b.n * a.d

FracMin(a, b) == IF FracLeq(a, b) THEN a ELSE b

\* x * f for a whole number x
Times(x, f) == Frac(x * f.n, f.d)

\* natural widths and heights of the logo, in pixels
LogoDims == {1, 20, 40, 100, 150, 151, 300, 600}

NoLimit == 0 - 1

DrawnLogo(k, w, h, dw, dh, maxW, maxH) ==
    [k |-> k, w |-> w, h |-> h, dw |-> dw, dh |-> dh, maxW |-> maxW, maxH |-> maxH]

\* Math.min(LOGO_MAX_WIDTH / width, LOGO_MAX_HEIGHT / height, 1)
ScaleFactor(w, h, maxW, maxH) ==
    FracMin(FracMin(Frac(maxW, w), Frac(maxH, h)), Frac(1, 1))

\* createPDFWithTable and addElegantHeader: both sizes from the one factor
ScaledLogo(k, w, h) ==
    LET scaleFactor == ScaleFactor(w, h, LOGO_MAX_WIDTH, LOGO_MAX_HEIGHT)
    IN DrawnLogo(k, w, h, Times(w, scaleFactor), Times(h, scaleFactor),
                 LOGO_MAX_WIDTH, LOGO_MAX_HEIGHT)

\* addDocumentHeader: doc.image(imageBuffer, x, y, { width: logoWidth }) draws
\* the logo logoWidth wide and keeps its aspect ratio
FixedWidthLogo(k, w, h, logoWidth) ==
    DrawnLogo(k, w, h, Frac(logoWidth, 1), Frac(h * logoWidth, w), logoWidth, NoLimit)

LS_CreatePDFWithTable ==
    /\ prog = "LS" /\ pc = "start"
    /\ doc' = [doc EXCEPT !.ops = Append(@, ScaledLogo("table", data.w, data.h))]
    /\ pc' = "done"
    /\ UNCHANGED <<prog, status, opts, data, startY, idx, totalPages, laidOut>>

LS_AddElegantHeader ==
    /\ prog = "LS" /\ pc = "start"
    /\ doc' = [doc EXCEPT !.ops = Append(@, ScaledLogo("tables", data.w, data.h))]
    /\ pc' = "done"
    /\ UNCHANGED <<prog, status, opts, data, startY, idx, totalPages, laidOut>>

LS_AddDocumentHeader ==
    /\ prog = "LS" /\ pc = "start"
    /\ doc' = [doc EXCEPT !.ops =
                  Append(@, FixedWidthLogo("charts", data.w, data.h,
                                           OrDefault(opts.logoWidth, 100)))]
    /\ pc' = "done"
    /\ UNCHANGED <<prog, status, opts, data, startY, idx, totalPages, laidOut>>

LS_Init ==
    /\ prog = "LS" /\ pc = "start" /\ status = "running"
    /\ opts \in [logoWidth : {0, 60}]
    /\ data \in [w : LogoDims, h : LogoDims]
    /\ doc = [ops |-> << >>]
    /\ startY = 0 /\ idx = NoIdx /\ totalPages = 0 /\ laidOut = 0

LS_Next == LS_CreatePDFWithTable \/ LS_AddElegantHeader \/ LS_AddDocumentHeader

SpecLS == LS_Init /\ [][LS_Next]_vars

(***************************************************************************)
(* The numbers of a chart: the wedges and legend of drawPieChart and of    *)
(* renderPieChart, the bars of drawBarChart and of renderBarChart, each    *)
(* computed from the chart's data.  Angles are exact fractions of a full   *)
(* turn, bar heights exact fractions of chartHeight.                       *)
(***************************************************************************)
MaxSlices == 3
MaxValue == 3

FracAdd(a, b) == Frac(a.n * b.d + b.n * a.d, a.d * b.d)

RECURSIVE SumTo(_, _)
SumTo(s, i) == IF i = 0 THEN 0 ELSE s[i] + SumTo(s, i - 1)

\* chartData.data.reduce((sum, value) => sum + value, 0)
Total(s) == SumTo(s, Len(s))

RECURSIVE MaxTo(_, _)
MaxTo(s, i) == IF i = 1 THEN s[1] ELSE Max(s[i], MaxTo(s, i - 1))

\* Math.max(...chartData.data) of a non-empty array
MaxOf(s) == MaxTo(s, Len(s))

\* x rounded to the nearest multiple of 1/u, a tie going up: toFixed(1) for
\* u = 10, Math.round for u = 1
RoundTo(x, u) == [n |-> (2 * x.n * u + x.d) \div (2 * x.d), d |-> u]

\* chartData.data[i] / (totalValue + 1)
SliceFraction_OfMore(v, total) == Frac(v, total + 1)

\* chartData.data[i] / totalValue
SliceFraction(v, total) == Frac(v, total)

ValueOp(k, i, a, b, nan) == [k |-> k, i |-> i, a |-> a, b |-> b, nan |-> nan]

Zero == Frac(0, 1)

\* whether the routine leaves out the entries whose value is 0
SkipsZero(impl) == impl = "drawPieChart"

\* the angle the first wedge starts at: -PI / 2 in drawPieChart, 0 in renderPieChart
InitialAngle(impl) == IF impl = "drawPieChart" THEN Frac(0 - 1, 4) ELSE Zero

\* the precision of the legend's percentage: toFixed(1) or Math.round
PercentUnit(impl) == IF impl = "drawPieChart" THEN 10 ELSE 1

Percentage(impl, v, total) ==
    RoundTo(Frac(100 * SliceFraction(v, total).n, SliceFraction(v, total).d), PercentUnit(impl))

\* one iteration of the loop over the segments
CV_Segment ==
    /\ prog = "CV" /\ pc = "segments" /\ idx.i <= Len(data.values)
    /\ LET v == data.values[idx.i]
           endAngle == FracAdd(doc.currentAngle, SliceFraction(v, Total(data.values)))
           wedge == ValueOp("wedge", idx.i, doc.currentAngle, endAngle, FALSE)
           label == ValueOp("percent", idx.i, Percentage(data.impl, v, Total(data.values)),
                            Zero, FALSE)
       IN doc' = IF SkipsZero(data.impl) /\ v = 0 THEN doc
                 ELSE [doc EXCEPT !.currentAngle = endAngle,
                                  !.ops = IF data.impl = "drawPieChart"
                                          THEN @ \o <<wedge, label>>
                                          ELSE Append(@, wedge)]
    /\ idx' = [idx EXCEPT !.i = @ + 1]
    /\ UNCHANGED <<prog, pc, status, opts, data, startY, totalPages, laidOut>>

CV_SegmentsDone ==
    /\ prog = "CV" /\ pc = "segments" /\ idx.i > Len(data.values)
    /\ pc' = "legend"
    /\ idx' = [idx EXCEPT !.i = 1]
    /\ UNCHANGED <<prog, status, doc, opts, data, startY, totalPages, laidOut>>

\* one iteration of the loop over the legend
CV_LegendItem ==
    /\ prog = "CV" /\ pc = "legend" /\ idx.i <= Len(data.values)
    /\ LET v == data.values[idx.i]
           item == ValueOp("legend", idx.i, Percentage(data.impl, v, Total(data.values)),
                           Zero, FALSE)
       IN doc' = IF SkipsZero(data.impl) /\ v = 0 THEN doc
                 ELSE [doc EXCEPT !.ops = Append(@, item)]
    /\ idx' = [idx EXCEPT !.i = @ + 1]
    /\ UNCHANGED <<prog, pc, status, opts, data, startY, totalPages, laidOut>>

\* barHeight = chartHeight * data[i] / maxValue, as a fraction of chartHeight;
\* 0 / 0 is NaN
BarHeight(v, maxValue) ==
    IF maxValue = 0 THEN [nan |-> TRUE, h |-> Zero] ELSE [nan |-> FALSE, h |-> Frac(v, maxValue)]

\* one iteration of the loop over the bars
CV_Bar ==
    /\ prog = "CV" /\ pc = "bars" /\ idx.i <= Len(data.values)
    /\ LET bar == BarHeight(data.values[idx.i], MaxOf(data.values))
       IN doc' = [doc EXCEPT !.ops = Append(@, ValueOp("bar", idx.i, bar.h, Zero, bar.nan))]
    /\ idx' = [idx EXCEPT !.i = @ + 1]
    /\ UNCHANGED <<prog, pc, status, opts, data, startY, totalPages, laidOut>>

CV_Done ==
    /\ prog = "CV" /\ pc \in {"legend", "bars"} /\ idx.i > Len(data.values)
    /\ pc' = "done"
    /\ UNCHANGED <<prog, status, doc, opts, data, startY, idx, totalPages, laidOut>>

PieRoutines == {"drawPieChart", "renderPieChart"}

BarRoutines == {"drawBarChart", "renderBarChart"}

\* the charts tried: up to MaxSlices whole values of 0..MaxValue; a pie chart
\* has a positive total
CV_Init ==
    /\ prog = "CV" /\ status = "running"
    /\ opts = [bottom |-> 0]
    /\ data \in [impl : PieRoutines \cup BarRoutines,
                 values : UNION {[1..n -> 0..MaxValue] : n \in 1..MaxSlices}]
    /\ data.impl \in PieRoutines => Total(data.values) > 0
    /\ pc = IF data.impl \in PieRoutines THEN "segments" ELSE "bars"
    /\ doc = [ops |-> << >>, currentAngle |-> InitialAngle(data.impl)]
    /\ startY = 0 /\ idx = [NoIdx EXCEPT !.i = 1] /\ totalPages = 0 /\ laidOut = 0

CV_Next == CV_Segment \/ CV_SegmentsDone \/ CV_LegendItem \/ CV_Bar \/ CV_Done

SpecCV == CV_Init /\ [][CV_Next]_vars

(***************************************************************************)
(* createParagraphsPDF and createHeaderedParagraphsPDF with outputPath:    *)
(* the document is a readable stream whose chunks go to the 'data'         *)
(* listener and, through doc.pipe, to the write stream of the file; the    *)
(* file system completes the writes on its own schedule.                   *)
(***************************************************************************)
MaxChunks == 3

FW_Routines == {"createParagraphsPDF", "createHeaderedParagraphsPDF"}

\* the streams after doc.pipe(writeStream): nothing emitted, nothing written
FW_Streams(n) ==
    [ toEmit |-> n,          \* chunks the document has still to emit
      chunks |-> 0,          \* chunks collected by the 'data' listener
      pending |-> 0,         \* writes handed to the file system, not yet done
      written |-> 0,         \* writes the file system has completed
      ended |-> FALSE,       \* writeStream.end() was called by the pipe
      finished |-> FALSE,    \* the write stream emitted 'finish'
      failed |-> FALSE,      \* the write stream emitted 'error'
      ops |-> << >> ]

\* doc.end(): the document starts to emit its chunks
FW_End ==
    /\ prog = "FW" /\ pc = "render"
    /\ pc' = "emitting"
    /\ UNCHANGED <<prog, status, doc, opts, data, startY, idx, totalPages, laidOut>>

\* one 'data' event: chunks.push(chunk), and the pipe writes the chunk
FW_Data ==
    /\ prog = "FW" /\ pc = "emitting" /\ doc.toEmit > 0
    /\ doc' = [doc EXCEPT !.toEmit = @ - 1, !.chunks = @ + 1,
                          !.pending = IF data.outputPath /\ ~ doc.failed THEN @ + 1 ELSE @]
    /\ UNCHANGED <<prog, pc, status, opts, data, startY, idx, totalPages, laidOut>>

\* the 'end' event: the listener of the routine resolves with the
\* concatenated chunks, then the listener of the pipe ends the write stream
FW_DocEnd ==
    /\ prog = "FW" /\ pc = "emitting" /\ doc.toEmit = 0
    /\ status' = IF status = "running" THEN "resolved" ELSE status
    /\ doc' = [doc EXCEPT !.ended = data.outputPath /\ ~ doc.failed,
                          !.ops = Append(@, [k |-> "resolve", pending |-> doc.pending,
                                             finished |-> doc.finished])]
    /\ pc' = "ended"
    /\ UNCHANGED <<prog, opts, data, startY, idx, totalPages, laidOut>>

\* the file system completes one write
FW_Written ==
    /\ prog = "FW" /\ doc.pending > 0 /\ ~ doc.failed
    /\ doc' = [doc EXCEPT !.pending = @ - 1, !.written = @ + 1]
    /\ UNCHANGED <<prog, pc, status, opts, data, startY, idx, totalPages, laidOut>>

\* a write fails: writeStream.on('error') calls reject, which has no effect
\* on a promise that is settled
FW_WriteError ==
    /\ prog = "FW" /\ doc.pending > 0 /\ ~ doc.failed /\ data.diskFails
    /\ doc' = [doc EXCEPT !.pending = 0, !.failed = TRUE]
    /\ status' = IF status = "running" THEN "rejected" ELSE status
    /\ UNCHANGED <<prog, pc, opts, data, startY, idx, totalPages, laidOut>>

\* all writes are done after writeStream.end(): the stream emits 'finish'
FW_Finish ==
    /\ prog = "FW" /\ doc.ended /\ doc.pending = 0 /\ ~ doc.failed /\ ~ doc.finished
    /\ doc' = [doc EXCEPT !.finished = TRUE]
    /\ UNCHANGED <<prog, pc, status, opts, data, startY, idx, totalPages, laidOut>>

FW_Init ==
    /\ prog = "FW" /\ pc = "render" /\ status = "running"
    /\ opts = [bottom |-> 0]
    /\ data \in [routine : FW_Routines, outputPath : BOOLEAN, diskFails : BOOLEAN,
                 chunks : 1..MaxChunks]
    /\ doc = FW_Streams(data.chunks)
    /\ startY = 0 /\ idx = NoIdx /\ totalPages = 0 /\ laidOut = 0

FW_Next == FW_End \/ FW_Data \/ FW_DocEnd \/ FW_Written \/ FW_WriteError \/ FW_Finish

SpecFW == FW_Init /\ [][FW_Next]_vars

(***************************************************************************)
(* Two render calls in flight at once (unnamed/part_007 createPDFWithTable *)
(* and pdfWithCharts.ts createPDFWithBarsAndPie).  A call runs from its    *)
(* entry to its first await, and from the settled await to its end, as     *)
(* one turn of the event loop each; the turns of the two calls interleave. *)
(* opts holds the module-level records, totalPages the page counters of    *)
(* each scope that declares them, laidOut the order of the turns.          *)
(***************************************************************************)
IR_Renders == 1..2

\* const DEFAULT_OPTIONS of pdfWithCharts.ts
IR_Module == [DEFAULT_OPTIONS |-> [pageMargin |-> 50, logoWidth |-> 100]]

\* { ...DEFAULT_OPTIONS, ...options }: a new object; every key of options,
\* whatever its value, replaces the default of that key
MergeOptions(defaults, options) ==
    [f \in DOMAIN defaults \cup DOMAIN options |->
        IF f \in DOMAIN options THEN options[f] ELSE defaults[f]]

\* mergedOptions.pageMargin || 50
IR_pageMargin(m, in) ==
    mp(OrDefault(MergeOptions(m.DEFAULT_OPTIONS, in.options).pageMargin, 50))

\* the scope of `let totalPages = 1; let currentPage = 1`: the call itself
IR_Owner_Module(r) == 0
IR_Owner(r) == r

\* the synchronous start of a call, up to its first await
IR_NewDoc(m, in) ==
    IF in.routine = "table" THEN T2_NewDoc(in.options)
    ELSE CH_NewDoc(IR_pageMargin(m, in))

RECURSIVE IR_Items(_, _, _)
IR_Items(d, items, i) ==
    IF i > Len(items) THEN d
    ELSE LET gap == ((3 - 2) * mp(DEFAULT_FONT_SIZE)) \div 2
         IN IR_Items(MoveDown(Text(SetFont(d, DEFAULT_FONT_SIZE, FALSE), "para", NoY,
                                   items[i], gap, 0, i, 0, 0), 1),
                     items, i + 1)

\* the rest of the call once the logo fetch has settled: the header, the
\* content, the footer
IR_Rest(m, d, in) ==
    IF in.routine = "table"
    THEN T2_AddFooter(IR_Items(T2_AddHeader(d, in.logo), in.items, 1))
    ELSE LET margin == IR_pageMargin(m, in)
             d1 == MoveDown(AddDocumentHeader(d, in.logo, margin), 3)
             total == BufferedCount(d1)
         IN Text(SetFont(SwitchToPage(d1, 0), 10, d1.bold), "footer",
                 d1.H - margin - mp(20), 1, 0, 0, 0, 1, total)

\* the same call with no other call in flight
IR_Alone(in) == IR_Rest(IR_Module, IR_NewDoc(IR_Module, in), in)

\* the document of call r with the counters its listener closes over
IR_Enter(r) == [doc[r] EXCEPT !.cnt = totalPages[IR_Owner(r)]]

IR_Leave(r, d) ==
    /\ doc' = [doc EXCEPT ![r] = d]
    /\ totalPages' = [totalPages EXCEPT ![IR_Owner(r)] = d.cnt]
    /\ laidOut' = Append(laidOut, r)

IR_Start(r) ==
    /\ prog = "IR" /\ pc[r] = "start"
    /\ IR_Leave(r, IR_NewDoc(opts, data[r]))
    /\ pc' = [pc EXCEPT ![r] = "await"]
    /\ UNCHANGED <<prog, status, opts, data, startY, idx>>

IR_Resume(r) ==
    /\ prog = "IR" /\ pc[r] = "await"
    /\ IR_Leave(r, IR_Rest(opts, IR_Enter(r), data[r]))
    /\ pc' = [pc EXCEPT ![r] = "done"]
    /\ status' = [status EXCEPT ![r] = "resolved"]
    /\ UNCHANGED <<prog, opts, data, startY, idx>>

IR_TableInputs ==
    [routine : {"table"}, logo : BOOLEAN, options : [bottom : OptBottoms],
     items : SeqsUpTo({1, MaxParaLines}, 2)]

IR_BarsInputs ==
    [routine : {"bars"}, logo : BOOLEAN,
     options : {<<>>, [pageMargin |-> 0], [pageMargin |-> 100]}, items : {<<>>}]

IR_Init ==
    /\ prog = "IR"
    /\ pc = [r \in IR_Renders |-> "start"]
    /\ status = [r \in IR_Renders |-> "running"]
    /\ opts = IR_Module
    /\ data \in [IR_Renders -> IR_TableInputs \cup IR_BarsInputs]
    /\ doc = [r \in IR_Renders |-> <<>>]
    /\ totalPages = [o \in {0} \cup IR_Renders |-> [total |-> 0, current |-> 0]]
    /\ startY = 0 /\ idx = NoIdx /\ laidOut = <<>>

IR_Next == \E r \in IR_Renders : IR_Start(r) \/ IR_Resume(r)

SpecIR == IR_Init /\ [][IR_Next]_vars

(***************************************************************************)
(* How each entry point settles its options: generatePDFWithTables         *)
(* (pdfWithMultipleTables.ts), createPDFWithTable (pdfWithTable.ts) and    *)
(* createLibrary (unnamed/part_005).  An option the caller leaves out is   *)
(* NoOpt; doc is the record of the settled values.                         *)
(***************************************************************************)
\* the values of an option tried: left out, 0, and a positive number
OptValues == {NoOpt, 0, 30}

\* a || b of the source for an optional number: undefined and 0 both select
\* the default
OrFalsy(v, dflt) == IF v = NoOpt \/ v = 0 THEN dflt ELSE v

\* the keys the caller's object really has
Supplied(o) == [f \in {g \in DOMAIN o : o[g] # NoOpt} |-> o[f]]

OM_Routines == {"generatePDFWithTables", "createPDFWithTable", "createLibrary"}

\* the fields each entry point reads, with the defaults it names
OM_Defaults(routine) ==
    CASE routine = "generatePDFWithTables" -> [margin |-> DEFAULT_MARGIN]
      [] routine = "createPDFWithTable" ->
            [bottom |-> DEFAULT_MARGINS_bottom, fontSize |-> DEFAULT_FONT_SIZE]
      [] OTHER -> [timeout |-> 3000]

\* const margin = options.margin || DEFAULT_MARGIN
OM_GeneratePDFWithTables ==
    /\ prog = "OM" /\ pc = "call" /\ data.routine = "generatePDFWithTables"
    /\ doc' = [margin |-> OrFalsy(data.options.margin, DEFAULT_MARGIN)]
    /\ pc' = "done"
    /\ UNCHANGED <<prog, status, opts, data, startY, idx, totalPages, laidOut>>

\* options.margins?.bottom || DEFAULT_MARGINS.bottom, options.fontSize || DEFAULT_FONT_SIZE
OM_CreatePDFWithTable ==
    /\ prog = "OM" /\ pc = "call" /\ data.routine = "createPDFWithTable"
    /\ doc' = [bottom |-> OrFalsy(data.options.bottom, DEFAULT_MARGINS_bottom),
               fontSize |-> OrFalsy(data.options.fontSize, DEFAULT_FONT_SIZE)]
    /\ pc' = "done"
    /\ UNCHANGED <<prog, status, opts, data, startY, idx, totalPages, laidOut>>

\* const mergedConfig = { ...DEFAULT_CONFIG, ...config }
OM_CreateLibrary ==
    /\ prog = "OM" /\ pc = "call" /\ data.routine = "createLibrary"
    /\ LET given == Supplied(data.options)
       IN doc' = MergeOptions(OM_Defaults("createLibrary"),
                              [f \in DOMAIN given \cap {"timeout"} |-> given[f]])
    /\ pc' = "done"
    /\ UNCHANGED <<prog, status, opts, data, startY, idx, totalPages, laidOut>>

OM_Init ==
    /\ prog = "OM" /\ pc = "call" /\ status = "running"
    /\ data \in [routine : OM_Routines,
                 options : [margin : OptValues, bottom : OptValues,
                            fontSize : OptValues, timeout : OptValues]]
    /\ doc = << >> /\ opts = << >>
    /\ startY = 0 /\ idx = NoIdx /\ totalPages = 0 /\ laidOut = 0

OM_Next == OM_GeneratePDFWithTables \/ OM_CreatePDFWithTable \/ OM_CreateLibrary

SpecOM == OM_Init /\ [][OM_Next]_vars

(***************************************************************************)
(* setupPageEventHandlers and addFooter (unnamed/part_009) on a document   *)
(* made with createPdfDocConfig, whose caller adds pages.  Every           *)
(* doc.addPage() emits 'pageAdded' synchronously, so an addFooter whose    *)
(* text breaks the page is suspended until the listener it triggered has   *)
(* returned: laidOut is the stack of the suspended addFooter calls, each   *)
(* entry the text that is waiting for its new page.  doc.stamps[p] is the  *)
(* set of footer texts drawn on page p, totalPages the number of pages the *)
(* caller has added.                                                       *)
(***************************************************************************)
MAX_PAGES == 1000
PDF_CONSTANTS_MARGIN_BOTTOM == 50
MaxAdds == 2

\* a text placed at y on a page with the margins of createPdfDocConfig starts
\* on a new page when its line would end below maxY
PH_Breaks(y) ==
    y + LineHeight(FOOTER_FONT_SIZE, FALSE) > A4Height - mp(PDF_CONSTANTS_MARGIN_BOTTOM)

\* both footer texts are placed at doc.page.height - MARGIN.BOTTOM
PH_FooterY == A4Height - mp(PDF_CONSTANTS_MARGIN_BOTTOM)

PH_Stamp(d, text) == [d EXCEPT !.stamps[d.np] = @ \cup {text}]

PH_NewPage(d) == [d EXCEPT !.np = @ + 1, !.stamps = Append(@, {})]

\* the caller's doc.addPage()
PH_AddPage ==
    /\ prog = "PH" /\ pc = "idle" /\ totalPages < data.adds
    /\ doc' = PH_NewPage(doc)
    /\ totalPages' = totalPages + 1
    /\ pc' = "emit"
    /\ UNCHANGED <<prog, status, opts, data, startY, idx, laidOut>>

\* emit('pageAdded'): the listener counts the page and, within the limit,
\* enters addFooter, whose first text (the date) is laid out
PH_PageAdded ==
    /\ prog = "PH" /\ pc = "emit"
    /\ IF ~ doc.listening
       THEN /\ pc' = "return"
            /\ UNCHANGED <<doc, laidOut>>
       ELSE LET d1 == [doc EXCEPT !.pageCount = @ + 1]
            IN IF d1.pageCount <= MAX_PAGES
               THEN IF PH_Breaks(PH_FooterY)
                    THEN /\ doc' = PH_NewPage(d1)
                         /\ laidOut' = Append(laidOut, "date")
                         /\ pc' = "emit"
                    ELSE /\ doc' = PH_Stamp(PH_Stamp(d1, "date"), "number")
                         /\ pc' = "return"
                         /\ UNCHANGED laidOut
               ELSE /\ doc' = [d1 EXCEPT !.listening = FALSE]
                    /\ pc' = "return"
                    /\ UNCHANGED laidOut
    /\ UNCHANGED <<prog, status, opts, data, startY, idx, totalPages>>

\* doc.addPage() returns into the text that called it: the text is drawn on
\* the page that is current now; after the date the page number is laid out,
\* after the page number addFooter and its listener return
PH_Return ==
    /\ prog = "PH" /\ pc = "return"
    /\ IF laidOut = << >>
       THEN /\ pc' = "idle"
            /\ UNCHANGED <<doc, laidOut>>
       ELSE LET top == laidOut[Len(laidOut)]
                rest == SubSeq(laidOut, 1, Len(laidOut) - 1)
                d1 == PH_Stamp(doc, top)
            IN IF top = "date"
               THEN IF PH_Breaks(PH_FooterY)
                    THEN /\ doc' = PH_NewPage(d1)
                         /\ laidOut' = Append(rest, "number")
                         /\ pc' = "emit"
                    ELSE /\ doc' = PH_Stamp(d1, "number")
                         /\ laidOut' = rest
                         /\ pc' = "return"
               ELSE /\ doc' = d1
                    /\ laidOut' = rest
                    /\ pc' = "return"
    /\ UNCHANGED <<prog, status, opts, data, startY, idx, totalPages>>

\* the caller is done
PH_End ==
    /\ prog = "PH" /\ pc = "idle" /\ totalPages = data.adds
    /\ pc' = "done"
    /\ status' = "resolved"
    /\ UNCHANGED <<prog, doc, opts, data, startY, idx, totalPages, laidOut>>

\* new PDFDocument(createPdfDocConfig()); setupPageEventHandlers(doc)
PH_Init ==
    /\ prog = "PH" /\ pc = "idle" /\ status = "running"
    /\ data \in [adds : 1..MaxAdds]
    /\ doc = [np |-> 1, stamps |-> <<{}>>, listening |-> TRUE, pageCount |-> 1]
    /\ opts = << >>
    /\ startY = 0 /\ idx = NoIdx /\ totalPages = 0 /\ laidOut = << >>

PH_Next == PH_AddPage \/ PH_PageAdded \/ PH_Return \/ PH_End

SpecPH == PH_Init /\ [][PH_Next]_vars

(***************************************************************************)
(* formatDate (unnamed/part_010).  A string is the sequence of its         *)
(* characters; data is the date, doc the string returned.                  *)
(***************************************************************************)
MonthNames ==
    <<<<"J", "a", "n", "u", "a", "r", "y">>,
      <<"F", "e", "b", "r", "u", "a", "r", "y">>,
      <<"M", "a", "r", "c", "h">>,
      <<"A", "p", "r", "i", "l">>,
      <<"M", "a", "y">>,
      <<"J", "u", "n", "e">>,
      <<"J", "u", "l", "y">>,
      <<"A", "u", "g", "u", "s", "t">>,
      <<"S", "e", "p", "t", "e", "m", "b", "e", "r">>,
      <<"O", "c", "t", "o", "b", "e", "r">>,
      <<"N", "o", "v", "e", "m", "b", "e", "r">>,
      <<"D", "e", "c", "e", "m", "b", "e", "r">>>>

\* the years and the format tried
YearSet == {1999, 2024}

DefaultDateFormat == <<"M", "M", "M", "M", " ", "D", "D", ",", " ", "Y", "Y", "Y", "Y">>

\* String.prototype.indexOf: the first position pat occurs at in s, or 0
IndexOf(s, pat) ==
    LET hits == {i \in 1..(Len(s) - Len(pat) + 1) : SubSeq(s, i, i + Len(pat) - 1) = pat}
    IN IF hits = {} THEN 0 ELSE CHOOSE i \in hits : \A j \in hits : i <= j

\* String.prototype.replace with a string pattern: the first occurrence only
ReplaceFirst(s, pat, by) ==
    LET i == IndexOf(s, pat)
    IN IF i = 0 THEN s
       ELSE SubSeq(s, 1, i - 1) \o by \o SubSeq(s, i + Len(pat), Len(s))

\* day < 10 ? `0${day}` : `${day}`
TwoDigits(n) == IF n < 10 THEN <<"0">> \o NumberToString(n) ELSE NumberToString(n)

formatDate(date, format) ==
    LET r1 == ReplaceFirst(format, <<"M", "M", "M", "M">>, MonthNames[date.month + 1])
        r2 == ReplaceFirst(r1, <<"D", "D">>, TwoDigits(date.day))
        r3 == ReplaceFirst(r2, <<"D">>, NumberToString(date.day))
    IN ReplaceFirst(r3, <<"Y", "Y", "Y", "Y">>, NumberToString(date.year))

\* setupFooter: const currentDate = formatDate(new Date(), dateFormat)
FD_Format ==
    /\ prog = "FD" /\ pc = "call"
    /\ doc' = formatDate(data, DefaultDateFormat)
    /\ pc' = "done"
    /\ UNCHANGED <<prog, status, opts, data, startY, idx, totalPages, laidOut>>

FD_Init ==
    /\ prog = "FD" /\ pc = "call" /\ status = "running"
    /\ data \in [month : 0..11, day : 1..31, year : YearSet]
    /\ doc = << >> /\ opts = << >>
    /\ startY = 0 /\ idx = NoIdx /\ totalPages = 0 /\ laidOut = 0

FD_Next == FD_Format

SpecFD == FD_Init /\ [][FD_Next]_vars

(***************************************************************************)
(* The three table routines side by side: createPDFWithTable               *)
(* (pdfWithTable.ts), addProfessionalTable (pdfWithMultipleTables.ts) and  *)
(* addTablesToDocument (pdfWithCharts.ts).                                 *)
(***************************************************************************)
TR_Init == T1_Init \/ MT_Init \/ CH_Init

TR_Next == T1_Next \/ MT_Next \/ CH_Next

SpecTR == TR_Init /\ [][TR_Next]_vars

(***************************************************************************)
(* The two ways a logo is scaled into its box: the two steps of            *)
(* addHeaderWithLogo (pdfWithParagraphs.ts, unnamed/part_010) and the one  *)
(* factor of createPDFWithTable (pdfWithTable.ts).  Sizes are exact        *)
(* fractions; opts is the box handed to addHeaderWithLogo.                 *)
(***************************************************************************)
FracMul(a, b) == Frac(a.n * b.n, a.d * b.d)

FracDiv(a, b) == Frac(a.n * b.d, a.d * b.n)

Whole(x) == Frac(x, 1)

\* addHeaderWithLogo: the width is limited first, then the height, each time
\* with the other side scaled by the same factor
TwoStepClamp_EachSideAlone(w, h, maxLogoWidth, maxLogoHeight) ==
    [w |-> FracMin(Whole(w), Whole(maxLogoWidth)),
     h |-> FracMin(Whole(h), Whole(maxLogoHeight))]
TwoStepClamp(w, h, maxLogoWidth, maxLogoHeight) ==
    LET wide == w > maxLogoWidth
        scale1 == FracDiv(Whole(maxLogoWidth), Whole(w))
        w1 == IF wide THEN Whole(maxLogoWidth) ELSE Whole(w)
        h1 == IF wide THEN FracMul(Whole(h), scale1) ELSE Whole(h)
        tall == ~ FracLeq(h1, Whole(maxLogoHeight))
        scale2 == FracDiv(Whole(maxLogoHeight), h1)
    IN [w |-> IF tall THEN FracMul(w1, scale2) ELSE w1,
        h |-> IF tall THEN Whole(maxLogoHeight) ELSE h1]

\* createPDFWithTable: scaledWidth and scaledHeight from the one scaleFactor
OneFactorScale(w, h, maxW, maxH) ==
    LET scaleFactor == ScaleFactor(w, h, maxW, maxH)
    IN [w |-> Times(w, scaleFactor), h |-> Times(h, scaleFactor)]

LC_AddHeaderWithLogo ==
    /\ prog = "LC" /\ pc = "start"
    /\ doc' = [by |-> "addHeaderWithLogo",
               size |-> TwoStepClamp(data.w, data.h, opts.maxLogoWidth, opts.maxLogoHeight)]
    /\ pc' = "done"
    /\ UNCHANGED <<prog, status, opts, data, startY, idx, totalPages, laidOut>>

LC_CreatePDFWithTable ==
    /\ prog = "LC" /\ pc = "start"
    /\ doc' = [by |-> "createPDFWithTable",
               size |-> OneFactorScale(data.w, data.h, LOGO_MAX_WIDTH, LOGO_MAX_HEIGHT)]
    /\ pc' = "done"
    /\ UNCHANGED <<prog, status, opts, data, startY, idx, totalPages, laidOut>>

LC_Init ==
    /\ prog = "LC" /\ pc = "start" /\ status = "running"
    /\ opts \in [maxLogoWidth : {100, LOGO_MAX_WIDTH}, maxLogoHeight : {LOGO_MAX_HEIGHT, 100}]
    /\ data \in [w : LogoDims, h : LogoDims]
    /\ doc = << >>
    /\ startY = 0 /\ idx = NoIdx /\ totalPages = 0 /\ laidOut = 0

LC_Next == LC_AddHeaderWithLogo \/ LC_CreatePDFWithTable

SpecLC == LC_Init /\ [][LC_Next]_vars

(***************************************************************************)
(* Vocabulary of the claims.                                               *)
(***************************************************************************)
Ops == doc.ops

OpsOf(k) == {i \in DOMAIN Ops : Ops[i].k = k}

\* the bottom content bound of page p: pageHeight - that page's bottom margin
BottomBound(p) == doc.H - doc.bot[p]

\* C1: at the moment a table row begins drawing, its start Y is not below
\* the bottom content bound of the page it starts on
C1_RowStartsAboveBottom ==
    \A i \in OpsOf("row") : Ops[i].y <= BottomBound(Ops[i].p)

\* C2: no table row's extent (start Y plus its measured height) crosses the
\* bottom content bound
C2_RowExtentAboveBottom ==
    \A i \in OpsOf("row") : Ops[i].ye <= BottomBound(Ops[i].p)

FootersOn(p) == {i \in OpsOf("footer") : Ops[i].p = p}

\* C3: once the render has ended, every laid-out page i of N carries exactly
\* one footer, reading "Page i of N"
C3_FooterOnEveryPage ==
    pc = "done" =>
        \A p \in 1..laidOut :
            /\ Cardinality(FootersOn(p)) = 1
            /\ \A i \in FootersOn(p) : Ops[i].a = p /\ Ops[i].b = laidOut

\* C5: a data row drawn after a page break between two rows is preceded, on
\* its page, by the table's column-header row
C5_HeaderRowRedrawn ==
    \A i \in OpsOf("row") :
        (Ops[i].b = 1 /\ Ops[i].r > 1) =>
            \E j \in OpsOf("colhdr") :
                j < i /\ Ops[j].p = Ops[i].p /\ Ops[j].t = Ops[i].t


\* C4: the page count is read after the layout, and the footer pass adds no
\* page: at the end the document has the N pages its footers name
C4_FooterPassAddsNoPage ==
    /\ pc \in {"footer", "done"} => totalPages = laidOut
    /\ (pc = "done" /\ status = "resolved") =>
           /\ doc.np = laidOut
           /\ \A i \in OpsOf("footer") : Ops[i].b = doc.np


\* C6: every page of the document carries the document header (the company
\* name, and the logo when one was loaded) exactly once, at the vertical
\* offset it has on the first page
C6_HeaderOnEveryPage ==
    pc # "header" => \A p \in 1..doc.np :
        /\ Cardinality({i \in OpsOf("header") : Ops[i].p = p}) = 1
        /\ \A i \in OpsOf("header") : \A j \in OpsOf("header") : Ops[i].y = Ops[j].y
        /\ data.logo => Cardinality({i \in OpsOf("logo") : Ops[i].p = p}) = 1

\* C7: every page break of the renderer moves to the next page and resumes
\* at the Y at which content starts on the first page
C7_BreakResetsCursor ==
    \A i \in OpsOf("break") :
        /\ Ops[i].p = Ops[i].a + 1
        /\ \A j \in OpsOf("start") : Ops[i].y = Ops[j].y

\* C8: a table heading is drawn once, on the page that also holds the
\* table's column header and its first row, and a table after the first
\* starts the inter-table spacing below the previous one unless it was
\* moved to a new page
C8_HeadingNotOrphaned ==
    \A i \in OpsOf("heading") :
        /\ \A j \in OpsOf("heading") : Ops[j].t = Ops[i].t => j = i
        /\ (idx.t > Ops[i].t \/ idx.r > 1) =>
               /\ Ops[i].pe = Ops[i].p
               /\ \E j \in OpsOf("colhdr") : Ops[j].t = Ops[i].t /\ Ops[j].p = Ops[i].p
               /\ \E j \in OpsOf("row") :
                      Ops[j].t = Ops[i].t /\ Ops[j].r = 1 /\ Ops[j].p = Ops[i].p
        /\ \A j \in OpsOf("tableend") :
               (Ops[j].t + 1 = Ops[i].t /\ Ops[j].p = Ops[i].p) =>
                   Ops[i].y = Ops[j].y + mp(SPACING_tablesToTable)


\* C9: every chart is drawn on one page, the page it starts on, and its
\* whole extent (title, axes, bars or wedges, labels, legend) lies above
\* that page's bottom content bound
C9_ChartOnOnePage ==
    \A i \in OpsOf("chart") :
        /\ Ops[i].pe = Ops[i].p
        /\ Ops[i].ye <= BottomBound(Ops[i].p)
        /\ \A j \in 1..Len(Ops) :
               (Ops[j].k \in {"title", "scale", "label", "percent", "legend"}
                    /\ Ops[j].t = Ops[i].t) =>
                   Ops[j].p = Ops[i].p /\ Ops[j].pe = Ops[i].p


\* C10: a designation is drawn on the page of the signature name before it,
\* below the name, and neither of the two runs over a page break
C10_SignatureAtomic ==
    \A i \in OpsOf("designation") :
        \E j \in OpsOf("signature") :
            /\ j < i
            /\ Ops[j].pe = Ops[j].p
            /\ Ops[i].p = Ops[j].p
            /\ Ops[i].pe = Ops[i].p
            /\ Ops[i].y >= Ops[j].ye

\* the draw operation that a content block of a given tag calls for
BlockKind(tag) ==
    CASE tag = "paragraph" -> "para"
      [] tag = "signature" -> "signature"
      [] tag = "designation" -> "designation"
      [] OTHER -> "none"

IsBlockOp(o) == o.k \in {"para", "signature", "designation"}

BlockOps == SelectSeq(Ops, IsBlockOp)

\* C11: once the loop over the content list has finished, the paragraph,
\* signature and designation blocks of the input have each been drawn exactly
\* once, in input order, by the routine that belongs to the block's tag.
C11_BlocksDrawnOnceInOrder ==
    (pc \notin {"header", "content"}) =>
        /\ Len(BlockOps) = Len(data.items)
        /\ \A i \in 1..Len(data.items) :
              /\ BlockOps[i].k = BlockKind(data.items[i].tag)
              /\ BlockOps[i].r = i

\* a blank paragraph: null, the empty string or white space only
IsBlank(p) == p.null \/ p.lines = 0

NotBlank(p) == ~ IsBlank(p)

\* the layout of a list of paragraphs on a fresh document
RECURSIVE LayoutOf(_, _, _)
LayoutOf(d, paras, i) ==
    IF i > Len(paras) THEN d
    ELSE LayoutOf(PP_AddParagraph(d, paras[i], i), paras, i + 1)

\* where a draw starts and ends: page and Y of its first and of its last line
Cursor(o) == <<o.p, o.y, o.pe, o.ye>>

Cursors(ops) == [j \in 1..Len(ops) |-> Cursor(ops[j])]

\* C12: a null, empty or white-space paragraph leaves the layout unchanged: the
\* draws, the cursor after each of them, the final cursor and the page count of
\* a list equal those of the same list without its blank entries, and the
\* render resolves with the bytes of at least one page.
C12_BlankParagraphsLeaveLayout ==
    LET ref == LayoutOf(PP_NewDoc(opts), SelectSeq(data.paras, NotBlank), 1)
    IN /\ (pc = "content" /\ idx.i <= Len(data.paras) /\ IsBlank(data.paras[idx.i]))
            => PP_AddParagraph(doc, data.paras[idx.i], idx.i) = doc
       /\ pc = "done" =>
            /\ Cursors(doc.ops) = Cursors(ref.ops)
            /\ doc.y = ref.y /\ doc.np = ref.np /\ doc.cur = ref.cur
            /\ status = "resolved" /\ totalPages >= 1

\* a finished render of a list that holds a white-space paragraph among texts
\* that reach a second page
C12_BlankBetweenTexts ==
    /\ pc = "done" /\ doc.np > 1
    /\ \E i \in 1..Len(data.paras) : IsBlank(data.paras[i]) /\ data.paras[i].ws > 0

CellsAt(r, c) == {j \in 1..Len(Ops) : Ops[j].k = "cell" /\ Ops[j].r = r /\ Ops[j].c = c}

HeaderCell(c) == Ops[CHOOSE j \in 1..Len(Ops) : Ops[j].k = "colhdr" /\ Ops[j].c = c]

\* C13: when a table's rows are drawn, the column headers are the keys of its
\* first row in order, and every row has for every column exactly one cell, at
\* the column's position and width, whose text is the string form of the row's
\* value for the column's key (of 0 too) and is empty when the row lacks the key.
C13_CellsShowStringForm ==
    (pc = "done" /\ Len(data.items) > 0) =>
        LET names == ObjectKeys(data.items[1])
        IN /\ \A c \in 1..Len(names) :
                /\ Cardinality({j \in 1..Len(Ops) : Ops[j].k = "colhdr" /\ Ops[j].c = c}) = 1
                /\ HeaderCell(c).text = <<names[c]>>
           /\ \A r \in 1..Len(data.items) : \A c \in 1..Len(names) :
                /\ Cardinality(CellsAt(r, c)) = 1
                /\ \A j \in CellsAt(r, c) :
                     /\ Ops[j].x = HeaderCell(c).x /\ Ops[j].w = HeaderCell(c).w
                     /\ Ops[j].text = IF HasKey(data.items[r], names[c])
                                      THEN StringOf(Get(data.items[r], names[c]))
                                      ELSE << >>

\* C14: a render whose logo could not be fetched or decoded still completes:
\* it resolves, and every page carries the company name and no logo.
C14_LogoFailureAbsorbed ==
    (pc = "done" /\ data.logo # "ok") =>
        /\ status = "resolved"
        /\ \A p \in 1..doc.np :
             /\ \E i \in OpsOf("header") : Ops[i].p = p
             /\ \A i \in OpsOf("logo") : Ops[i].p # p

\* C15: a logo of natural size (w, h) is drawn at (w*s, h*s) for the one
\* factor s = min(maxWidth/w, maxHeight/h, 1): no wider than maxWidth or w,
\* no taller than maxHeight or h, and of the natural aspect ratio.
C15_LogoScaledByOneFactor ==
    \A j \in 1..Len(Ops) :
        LET o == Ops[j]
            s == FracMin(IF o.maxH = NoLimit THEN Frac(o.maxW, o.w)
                         ELSE FracMin(Frac(o.maxW, o.w), Frac(o.maxH, o.h)),
                         Frac(1, 1))
        IN /\ FracEq(o.dw, Times(o.w, s)) /\ FracEq(o.dh, Times(o.h, s))
           /\ FracLeq(o.dw, Frac(o.maxW, 1)) /\ FracLeq(o.dw, Frac(o.w, 1))
           /\ o.maxH # NoLimit => FracLeq(o.dh, Frac(o.maxH, 1))
           /\ FracLeq(o.dh, Frac(o.h, 1))
           /\ o.dw.n * o.h * o.dh.d = o.dh.n * o.w * o.dw.d

EmptyTables == {t \in 1..Len(data.tables) : Len(data.tables[t].rows) = 0}

TableOps(t) == {i \in DOMAIN Ops : Ops[i].k \in {"heading", "colhdr", "row", "cell"} /\ Ops[i].t = t}

\* C16: a table without items is skipped: nothing of it is drawn and the Y
\* returned for it is the Y it was given; the other tables are drawn with all
\* their rows, every page gets its footer and the render resolves.
C16_EmptyTableSkipped ==
    (pc = "done" /\ EmptyTables # {}) =>
        /\ \A t \in EmptyTables :
             /\ TableOps(t) = {}
             /\ \A i \in OpsOf("tableend") : Ops[i].t = t => Ops[i].ye = Ops[i].y
        /\ \A t \in (1..Len(data.tables)) \ EmptyTables :
             /\ \E i \in OpsOf("heading") : Ops[i].t = t
             /\ \A r \in 1..Len(data.tables[t].rows) :
                  \E i \in OpsOf("row") : Ops[i].t = t /\ Ops[i].r = r
        /\ \A p \in 1..doc.np : FootersOn(p) # {}
        /\ status = "resolved"

EmptyCharts == {c \in 1..Len(data.charts) : data.charts[c].n = 0}

ChartOps(c) ==
    {i \in DOMAIN Ops : Ops[i].k \in {"title", "scale", "label", "percent", "legend"} /\ Ops[i].t = c}

\* C17: a chart without data is skipped: no title, scale, label, percentage or
\* legend of it is drawn and nothing reaches below the Y the chart started at;
\* the other charts are drawn, every page gets its footer and the render
\* resolves.
C17_EmptyChartSkipped ==
    (pc = "done" /\ EmptyCharts # {}) =>
        /\ \A c \in EmptyCharts :
             /\ ChartOps(c) = {}
             /\ \A i \in OpsOf("chart") : Ops[i].t = c => Ops[i].ye = Ops[i].y
        /\ \A c \in (1..Len(data.charts)) \ EmptyCharts :
             \E i \in OpsOf("chart") : Ops[i].t = c
        /\ \A p \in 1..doc.np : FootersOn(p) # {}
        /\ status = "resolved"

Wedges == SelectSeq(Ops, LAMBDA o : o.k = "wedge")

LegendItems == SelectSeq(Ops, LAMBDA o : o.k = "legend")

RECURSIVE FracSum(_, _)
FracSum(s, i) == IF i = 0 THEN Zero ELSE FracAdd(s[i].a, FracSum(s, i - 1))

\* C18: in a pie chart of non-negative data with a positive total each wedge
\* starts at the angle at which the one before it ended, the last one ends a
\* full turn after the start of the first, and the percentages of the legend
\* add up to 100 give or take half a unit of the last digit shown per entry.
C18_WedgesMakeFullTurn ==
    (data.impl \in PieRoutines) =>
        /\ \A j \in 1..Len(Wedges) :
             Wedges[j].a = IF j = 1 THEN InitialAngle(data.impl) ELSE Wedges[j - 1].b
        /\ Len(Wedges) > 0 => doc.currentAngle = Wedges[Len(Wedges)].b
        /\ pc \in {"legend", "done"} =>
             /\ Len(Wedges) > 0
             /\ Wedges[Len(Wedges)].b = FracAdd(InitialAngle(data.impl), Frac(1, 1))
        /\ pc = "done" =>
             LET sum == FracSum(LegendItems, Len(LegendItems))
                 tolerance == Frac(Len(LegendItems), 2 * PercentUnit(data.impl))
             IN /\ FracLeq(sum, FracAdd(Frac(100, 1), tolerance))
                /\ FracLeq(Frac(100, 1), FracAdd(sum, tolerance))

\* a finished pie chart of three unequal wedges whose percentages are rounded
C18_ThreeWedgesDrawn ==
    /\ data.impl \in PieRoutines /\ pc = "done"
    /\ Len(Wedges) = 3 /\ Len(LegendItems) = 3
    /\ Total(data.values) = 7

Bars == SelectSeq(Ops, LAMBDA o : o.k = "bar")

\* C19: in a bar chart of non-negative data bar i is chartHeight * data_i /
\* max(data) high: a bar of the largest value is exactly chartHeight high (the
\* fraction 1) and no bar is higher, also when all values are equal or all 0.
C19_TallestBarFillsChart ==
    (data.impl \in BarRoutines /\ pc = "done") =>
        /\ Len(Bars) = Len(data.values)
        /\ \A i \in 1..Len(Bars) :
             /\ ~ Bars[i].nan
             /\ FracLeq(Bars[i].a, Frac(1, 1))
             /\ data.values[i] = MaxOf(data.values) => Bars[i].a = Frac(1, 1)
             /\ MaxOf(data.values) > 0 => Bars[i].a = Frac(data.values[i], MaxOf(data.values))

NonZeroEntries == SelectSeq([i \in 1..Len(data.values) |-> i], LAMBDA i : data.values[i] # 0)

\* C20: the legend of a pie chart has one entry for every data entry that is
\* not 0, in input order, and none for an entry of 0; the wedges are drawn for
\* exactly the same entries.
C20_LegendSkipsZeroEntries ==
    (data.impl \in PieRoutines /\ pc = "done") =>
        /\ [j \in 1..Len(LegendItems) |-> LegendItems[j].i] = NonZeroEntries
        /\ [j \in 1..Len(Wedges) |-> Wedges[j].i] = NonZeroEntries

\* C21: when a render with outputPath has resolved, the write stream of the
\* file has finished: no write is pending and none has failed or can fail.
C21_ResolvedAfterFileWritten ==
    (status = "resolved" /\ data.outputPath) =>
        doc.finished /\ doc.pending = 0 /\ ~ doc.failed


C23_SuppliedOptionOverridesDefault ==
    (prog = "OM" /\ pc = "done") =>
        \A f \in DOMAIN OM_Defaults(data.routine) :
            doc[f] = IF data.options[f] # NoOpt THEN data.options[f]
                     ELSE OM_Defaults(data.routine)[f]


\* C24: in createPDF, when the end of the paragraph plus the signature spacing
\* lies below pageHeight - margin - 80 the signature is drawn on a new page at
\* margin + 40; otherwise it is drawn on the paragraph's page, the signature
\* spacing below the paragraph's end.
C24_SignatureMovesToNewPage ==
    (prog = "FT" /\ \E k \in 1..Len(Ops) : Ops[k].k = "signature") =>
        LET para == Ops[CHOOSE k \in 1..Len(Ops) : Ops[k].k = "para"]
            sig == Ops[CHOOSE k \in 1..Len(Ops) : Ops[k].k = "signature"]
            limit == doc.H - FT_margin - mp(80)
        IN IF para.ye + mp(50) > limit
           THEN sig.p = para.pe + 1 /\ sig.y = FT_margin + mp(40)
           ELSE sig.p = para.pe /\ sig.y = para.ye + mp(50)


\* C25: when the pageAdded-driven createPDFWithTable returns, every page of
\* the document carries the header and a footer, and that footer shows the
\* page's own number and the final number of pages.
C25_EveryPageHasHeaderAndFooter ==
    (prog = "T2" /\ pc = "done") =>
        \A p \in 1..doc.np :
            /\ \E k \in 1..Len(Ops) : Ops[k].k = "header" /\ Ops[k].p = p
            /\ \E k \in 1..Len(Ops) :
                  /\ Ops[k].k = "footer" /\ Ops[k].p = p
                  /\ Ops[k].a = p /\ Ops[k].b = doc.np


\* C26: a footer is drawn only on pages the listener counted within
\* MAX_PAGES, never on a page beyond them, and once the chain of page
\* additions has ended every page added within the limit carries its footer
\* (the date and the page number).
C26_FooterOnlyOnCountedPages ==
    prog = "PH" =>
        /\ \A p \in 1..doc.np : doc.stamps[p] # {} => p <= MAX_PAGES
        /\ (pc \in {"idle", "done"} /\ laidOut = << >>) =>
               \A p \in 2..Min(doc.np, MAX_PAGES) : doc.stamps[p] = {"date", "number"}


\* C27: formatDate(date, 'MMMM DD, YYYY') returns the full month name, a
\* space, the day in two digits, a comma and a space, and the year.
C27_DateFormatted ==
    (prog = "FD" /\ pc = "done") =>
        doc = MonthNames[data.month + 1] \o <<" ">> \o TwoDigits(data.day)
              \o <<",", " ">> \o NumberToString(data.year)


\* the tables of the document being rendered
TablesOf == IF prog = "T1" THEN <<data.table>> ELSE data.tables

\* the rows of table t drawn so far, in the order they were drawn
RowsDrawn(t) == SelectSeq(Ops, LAMBDA o : o.k = "row" /\ o.t = t)

\* C28: the rows of a table are drawn in input order, each exactly once and
\* with one cell per column, whether or not a row begins a new page: the loop
\* over the rows has drawn every row it has passed, and once the render is
\* over the rows drawn are the rows of the input.
C28_RowsDrawnOnceInOrder ==
    prog \in {"T1", "MT", "CH"} =>
        \A t \in 1..Len(TablesOf) :
            LET drawn == RowsDrawn(t)
            IN /\ Len(drawn) <= Len(TablesOf[t].rows)
               /\ \A i \in 1..Len(drawn) :
                     /\ drawn[i].r = i
                     /\ Cardinality({k \in OpsOf("cell") :
                                        Ops[k].t = t /\ Ops[k].r = i}) = NumCols
               /\ (pc = "rows" /\ t = (IF prog = "T1" THEN 1 ELSE idx.t)) =>
                     Len(drawn) = idx.r - 1
               /\ pc = "done" => Len(drawn) = Len(TablesOf[t].rows)

\* a table of two rows whose second row began a new page, all rows drawn
C28_BreakInsideTable ==
    /\ prog = "MT" /\ pc = "done"
    /\ \E t \in 1..Len(data.tables) :
          /\ Len(data.tables[t].rows) = 2
          /\ Len(RowsDrawn(t)) = 2
          /\ RowsDrawn(t)[2].b = 1
          /\ RowsDrawn(t)[1].p < RowsDrawn(t)[2].p


\* C29: for every natural size and every box the two steps of
\* addHeaderWithLogo give the width and height that the one factor
\* min(maxWidth / w, maxHeight / h, 1) gives, and for its own box the one
\* factor of createPDFWithTable gives what the two steps give.
C29_LogoScalingsAgree ==
    (prog = "LC" /\ pc = "done") =>
        LET maxW == IF doc.by = "addHeaderWithLogo" THEN opts.maxLogoWidth ELSE LOGO_MAX_WIDTH
            maxH == IF doc.by = "addHeaderWithLogo" THEN opts.maxLogoHeight ELSE LOGO_MAX_HEIGHT
            other == IF doc.by = "addHeaderWithLogo"
                     THEN OneFactorScale(data.w, data.h, maxW, maxH)
                     ELSE TwoStepClamp(data.w, data.h, maxW, maxH)
        IN FracEq(doc.size.w, other.w) /\ FracEq(doc.size.h, other.h)

\* a logo too wide for the box and, once narrowed, still too tall for it
C29_BothStepsTaken ==
    /\ prog = "LC" /\ pc = "done" /\ doc.by = "addHeaderWithLogo"
    /\ data.w > opts.maxLogoWidth
    /\ data.h * opts.maxLogoWidth > opts.maxLogoHeight * data.w
    /\ FracEq(doc.size.h, Whole(opts.maxLogoHeight))


\* the blocks laid out so far, in the order they were drawn
LaidOutBlocks == SelectSeq(Ops, LAMBDA o : o.k \in {"para", "signature", "row", "chart"})

\* C30: during layout the page never goes back, and a block that starts on the
\* page the block before it ended on starts at or below the lowest Y that
\* block drew.
C30_BlocksTopToBottom ==
    prog = "FT" =>
        \A i \in 2..Len(LaidOutBlocks) :
            LET prev == LaidOutBlocks[i - 1]
                next == LaidOutBlocks[i]
            IN /\ next.p >= prev.pe
               /\ next.p = prev.pe => next.y >= prev.ye

=============================================================================
